---- MODULE Spec2Model ----
(***************************************************************************)
(* State-machine model of RaDesignDragRef (the drag reference of the       *)
(* design stage), the drag/drop registry it talks to and the drop          *)
(* containers it calls.  One action per event handler; a handler that      *)
(* throws keeps the assignments it made before the throw.                  *)
(***************************************************************************)
EXTENDS Integers, Sequences, FiniteSets, TLC

\* ------------------------------------------------------------------ bounds
\* Pointer positions are the integer points of the page [0..MaxX] x [0..MaxY].
MaxX == 2
MaxY == 1
\* Largest number of observers a registry stream may hold.
MaxSubs == 2
\* Number of events delivered in a scenario with one draggable in use, and
\* in a scenario with both draggables in use.
MaxEvents == 6
MaxEventsTwo == 5
\* Number of events delivered in a scenario with touch and mouse input,
\* auxiliary buttons, the disabled flag and reset(); and the number of clock
\* steps the clock may reach in it.
MaxEventsIn == 5
MaxTicks == 3
\* Number of user events (pointer events, transitionend events, dispose)
\* delivered in a scenario whose timers are always run.
MaxEventsLive == 7
\* Largest width and height of the boundary and of the preview in the calls
\* of _getConstrainedPointerPosition that are examined on their own.
MaxGeo == 2

\* ---------------------------------------------------------- configuration
\* DragRefConfig: the two thresholds handed to the constructor.
dragStartThreshold == 2
pointerDirectionChangeThreshold == 1
\* Time, in ms, for which mouse events are ignored after a touch event.
MOUSE_EVENT_IGNORE_TIME == 800

\* -------------------------------------------------------------- universes
Refs == {"r1", "r2"}
Containers == {"A", "B"}
\* null / undefined of a container reference or of a lock axis
None == "null"
\* null of a DOM node reference
Null == <<"null", "">>
Body == <<"body", "">>
Root(r) == <<"root", r>>
Preview(r) == <<"preview", r>>
Placeholder(r) == <<"placeholder", r>>
El(c) == <<"drop-list", c>>
\* An ancestor of Root(r) that withRootElement may be given as the root.
Alt(r) == <<"alt-root", r>>
\* The element of drag handle i, inside the root of "r1", and an element
\* inside that handle.
HandleIds == {"h1", "h2"}
Handle(i) == <<"handle", i>>
Within(i) == <<"within", i>>
\* Elements whose native drag interactions the program toggles.
Styled == {Root(r) : r \in Refs} \cup {Alt(r) : r \in Refs} \cup {Handle(i) : i \in HandleIds}
Parents == {Body} \cup {El(c) : c \in Containers}

\* undefined of a Point / of a ClientRect
NoPoint == [undefined |-> TRUE]
NoRect == [undefined |-> TRUE]
Pt(px, py) == [x |-> px, y |-> py]
Zero == Pt(0, 0)
Points == {Pt(px, py) : px \in 0..MaxX, py \in 0..MaxY}
Rect(l, t, w, h) ==
    [left |-> l, top |-> t, right |-> l + w, bottom |-> t + h, width |-> w, height |-> h]

Abs(n) == IF n < 0 THEN -n ELSE n
Max(a, b) == IF a >= b THEN a ELSE b
Min(a, b) == IF a <= b THEN a ELSE b

\* ------------------------------------------------------ sequence helpers
Contains(seq, e) == \E i \in 1..Len(seq) : seq[i] = e
IndexOf(seq, e) == IF Contains(seq, e) THEN CHOOSE i \in 1..Len(seq) : seq[i] = e ELSE 0
Without(seq, e) == SelectSeq(seq, LAMBDA z : z # e)
InsertAt(seq, i, e) == SubSeq(seq, 1, i - 1) \o <<e>> \o SubSeq(seq, i, Len(seq))

\* ------------------------------------------------------------------ page
\* The page the model runs on: drop list A holds r1's root element, another
\* item x and the element of drop list B; drop list B holds an item y and
\* r2's root element (its last child).  Element A
\* covers the columns 0 and 1, element B (inside A) the column 1; the
\* columns from 2 on are outside both.
Item(i) == <<"item", i>>
InitialChildren ==
    [p \in Parents |->
        IF p = Body THEN <<El("A")>>
        ELSE IF p = El("A") THEN <<Root("r1"), Item("x"), El("B")>>
        ELSE <<Item("y"), Root("r2")>>]

\* Element the browser reports as event.target for a pointer at point p.
TargetAt(p) ==
    IF p.x = 1 THEN El("B")
    ELSE IF p.x = 0 THEN El("A")
    ELSE Body

\* Parent element of a container element / of the body.
ParentElement(n) ==
    IF n = El("B") THEN El("A")
    ELSE IF n = El("A") THEN Body
    ELSE Null

\* getBoundingClientRect of the root element and of the preview of r.
RootRect(r) == IF r = "r1" THEN Rect(0, 0, 1, MaxY + 1) ELSE Rect(1, 0, 1, MaxY + 1)
PreviewRect(r) == RootRect(r)
\* Points at which a pointer-down lands on the root element of r.
PointsOn(r) ==
    {p \in Points : /\ RootRect(r).left <= p.x /\ p.x < RootRect(r).right
                    /\ RootRect(r).top <= p.y /\ p.y < RootRect(r).bottom}

\* --------------------------------------------------------------- DOM ops
ParentNode(d, n) ==
    IF \E p \in Parents : Contains(d.children[p], n)
    THEN CHOOSE p \in Parents : Contains(d.children[p], n)
    ELSE Null

Detach(d, n) == [d EXCEPT !.children = [p \in Parents |-> Without(d.children[p], n)]]

\* Node.nextSibling
NextSibling(d, n) ==
    LET p == ParentNode(d, n) IN
    IF p = Null THEN Null
    ELSE LET i == IndexOf(d.children[p], n) IN
         IF i < Len(d.children[p]) THEN d.children[p][i + 1] ELSE Null

\* parent.appendChild(n): n leaves its old parent first
AppendChild(d, p, n) ==
    LET d1 == Detach(d, n) IN
    [d1 EXCEPT !.children[p] = Append(d1.children[p], n)]

\* parent.replaceChild(new, old)
ReplaceChild(d, p, new, old) ==
    LET d1 == Detach(d, new)
        i == IndexOf(d1.children[p], old)
    IN [d1 EXCEPT !.children[p] = [d1.children[p] EXCEPT ![i] = new]]

\* parent.insertBefore(n, before)
InsertBefore(d, p, n, before) ==
    LET d1 == Detach(d, n)
        i == IndexOf(d1.children[p], before)
    IN [d1 EXCEPT !.children[p] = InsertAt(d1.children[p], i, n)]

\* removeElement(element): guarded by the null checks of the helper
removeElement(d, n) ==
    IF n # Null /\ ParentNode(d, n) # Null THEN Detach(d, n) ELSE d

\* Is the node attached to the document?
InDocument(d, n) ==
    LET p == ParentNode(d, n) IN
    \/ p = Body
    \/ p = El("A")
    \/ p = El("B") /\ ParentNode(d, El("B")) # Null

\* clamp(value, min, max)
clamp(value, min, max) == Max(min, Min(max, value))
\* ------------------------------------------------------------ exceptions
\* An uncaught TypeError: the rest of the running handler is skipped.
Throw(s, what) == [s EXCEPT !.uncaught = @ \cup {what}, !.threw = TRUE]
Caught(s) == [s EXCEPT !.threw = FALSE]

\* -------------------------------------------------------------- registry
registerDragItem(g, r) == [g EXCEPT !.dragItems = @ \cup {r}]
startDragging(g, r) == [g EXCEPT !.active = r]
stopDragging(g, r) == IF g.active = r THEN [g EXCEPT !.active = None] ELSE g
removeDragItem(g, r) == stopDragging([g EXCEPT !.dragItems = @ \ {r}], r)
registryIsDragging(g, r) == g.active = r

\* The pointerMove / pointerUp streams: observers in subscription order.  A
\* closed observer stays in the list until the running emission is over.
Subscribe(subject, r) == Append(subject, [ref |-> r, closed |-> FALSE])
LastOf(subject, r) ==
    LET I == {i \in 1..Len(subject) : subject[i].ref = r} IN
    IF I = {} THEN 0 ELSE CHOOSE i \in I : \A j \in I : j <= i
Close(subject, i) == IF i = 0 THEN subject ELSE [subject EXCEPT ![i].closed = TRUE]
Compact(subject) == SelectSeq(subject, LAMBDA e : ~e.closed)
OpenCount(subject, r) == Cardinality({i \in 1..Len(subject) : subject[i].ref = r /\ ~subject[i].closed})

\* ------------------------------------------------------- drop containers
\* Hook calls are logged as tuples whose first element names the hook.
Call(s, c) == [s EXCEPT !.calls = Append(@, c)]

enterPredicate(s, c, item, source) == s.drops[c].accepts

enter(s, c, item, x, y) ==
    LET rest == Without(s.drops[c].items, item)
        at == Min(y, Len(rest)) + 1
    IN Call([s EXCEPT !.drops[c].items = InsertAt(rest, at, item)], <<"enter", c, item, x, y>>)

exit(s, c, item) ==
    Call([s EXCEPT !.drops[c].items = Without(@, item)], <<"exit", c, item>>)

sortItem(s, c, item, x, y, delta) ==
    LET rest == Without(s.drops[c].items, item)
        at == Min(y, Len(rest)) + 1
        s1 == IF Contains(s.drops[c].items, item)
              THEN [s EXCEPT !.drops[c].items = InsertAt(rest, at, item)]
              ELSE s
    IN Call(s1, <<"sort", c, item, x, y, delta.x, delta.y>>)

getItemIndex(s, c, item) == IndexOf(s.drops[c].items, item) - 1

isOverContainer(c, x, y) == IF c = "A" THEN x \in {0, 1} ELSE x = 1

drop(s, c, item, currentIndex, originContainer, isPointerOverContainer) ==
    Call(s, <<"drop", c, item, currentIndex, originContainer, isPointerOverContainer>>)

start(s, c) == Call(s, <<"start", c>>)

\* ------------------------------------------------------ DragRef, helpers
isDragging(s, r) == s.ref[r].hasStartedDragging /\ registryIsDragging(s.registry, r)

\* event.type.startsWith('touch')
isTouchEvent(ev) == ev.type \in {"touchstart", "touchmove", "touchend"}

getPointerPositionOnPage(ev) == ev.pos

getPointerPositionInElement(r, ev) ==
    Pt(ev.pos.x - RootRect(r).left, ev.pos.y - RootRect(r).top)

\* getTransform(x, y), kept as the translation it encodes
getTransform(x, y) == Pt(x, y)

\* Variants of the threshold test: one pixel early / equality excluded.
ThresholdReachedEarly(distanceX, distanceY) == distanceX + distanceY >= dragStartThreshold - 1
ThresholdReachedStrict(distanceX, distanceY) == distanceX + distanceY > dragStartThreshold
ThresholdReached(distanceX, distanceY) == distanceX + distanceY >= dragStartThreshold

\* Variant of the direction test that ignores the threshold.
DirectionChangedUnchecked(change) == change >= 0
DirectionChanged(change) == change > pointerDirectionChangeThreshold

LockAxes(point, lockAxis, dropContainerLock, pickup) ==
    IF lockAxis = "x" \/ dropContainerLock = "x" THEN [point EXCEPT !.y = pickup.y]
    ELSE IF lockAxis = "y" \/ dropContainerLock = "y" THEN [point EXCEPT !.x = pickup.x]
    ELSE point

\* Variant of the clamping that forgets the pickup offset in the lower limits.
ClampToBoundaryNoOffset(point, pickupInElement, boundaryRect, previewRect) ==
    LET minY == boundaryRect.top
        maxY == boundaryRect.bottom - (previewRect.height - pickupInElement.y)
        minX == boundaryRect.left
        maxX == boundaryRect.right - (previewRect.width - pickupInElement.x)
    IN Pt(clamp(point.x, minX, maxX), clamp(point.y, minY, maxY))

\* The boundary branch of _getConstrainedPointerPosition.
ClampToBoundary(point, pickupInElement, boundaryRect, previewRect) ==
    LET minY == boundaryRect.top + pickupInElement.y
        maxY == boundaryRect.bottom - (previewRect.height - pickupInElement.y)
        minX == boundaryRect.left + pickupInElement.x
        maxX == boundaryRect.right - (previewRect.width - pickupInElement.x)
    IN Pt(clamp(point.x, minX, maxX), clamp(point.y, minY, maxY))

\* g: the fields of the ref the method reads, lock: the container's lockAxis
getConstrainedPointerPosition(point, g, lock) ==
    LET locked == LockAxes(point, g.lockAxis, lock, g.pickupPositionOnPage) IN
    IF g.boundaryRect # NoRect
    THEN ClampToBoundary(locked, g.pickupPositionInElement, g.boundaryRect, g.previewRect)
    ELSE locked

\* Result: the new delta and the new position of the last direction change.
updatePointerDirectionDelta(delta, last, p) ==
    LET changeX == Abs(p.x - last.x)
        changeY == Abs(p.y - last.y)
        cx == DirectionChanged(changeX)
        cy == DirectionChanged(changeY)
    IN [delta |-> Pt(IF cx THEN (IF p.x > last.x THEN 1 ELSE -1) ELSE delta.x,
                     IF cy THEN (IF p.y > last.y THEN 1 ELSE -1) ELSE delta.y),
        last |-> Pt(IF cx THEN p.x ELSE last.x, IF cy THEN p.y ELSE last.y)]

\* The enterPredicate calls of findElementUp from currentElement on, each
\* as <<container, candidateItem, sourceContainer>>: the second argument is
\* the local drop, still null whenever the predicate is called.
RECURSIVE enterPredicateCalls(_, _, _)
enterPredicateCalls(s, r, currentElement) ==
    IF currentElement = Null THEN <<>>
    ELSE IF currentElement[1] = "drop-list"
         THEN <<<<currentElement[2], r, None>>>> \o
              (IF enterPredicate(s, currentElement[2], r, None) THEN <<>>
               ELSE enterPredicateCalls(s, r, ParentElement(currentElement)))
         ELSE enterPredicateCalls(s, r, ParentElement(currentElement))

\* Variant of the walk that ends at the first drop list, accepting or not.
RECURSIVE findElementUpFirstList(_, _, _)
findElementUpFirstList(s, r, currentElement) ==
    IF currentElement = Null THEN None
    ELSE IF currentElement[1] = "drop-list"
         THEN (IF enterPredicate(s, currentElement[2], r, None)
               THEN currentElement[2] ELSE None)
         ELSE findElementUpFirstList(s, r, ParentElement(currentElement))

RECURSIVE findElementUp(_, _, _)
findElementUp(s, r, currentElement) ==
    IF currentElement = Null THEN None
    ELSE IF currentElement[1] = "drop-list"
            /\ enterPredicate(s, currentElement[2], r, None)
         THEN currentElement[2]
         ELSE findElementUp(s, r, ParentElement(currentElement))

removeSubscriptions(s, r) ==
    LET g == s.registry
        me == s.ref[r]
        g1 == IF me.moveSubLive
              THEN [g EXCEPT !.pointerMove = Close(@, LastOf(@, r))] ELSE g
        g2 == IF me.upSubLive
              THEN [g1 EXCEPT !.pointerUp = Close(@, LastOf(@, r))] ELSE g1
    IN [s EXCEPT !.registry = g2, !.ref[r].moveSubLive = FALSE, !.ref[r].upSubLive = FALSE]

destroyPreview(s, r) ==
    [s EXCEPT !.dom = removeElement(@, s.ref[r].preview),
              !.ref[r].preview = Null, !.ref[r].previewTransform = NoPoint]

destroyPlaceholder(s, r) ==
    [s EXCEPT !.dom = removeElement(@, s.ref[r].placeholder),
              !.ref[r].placeholder = Null]
\* ------------------------------------------------- DragRef, the handlers
\* _createPreviewElement + _createPlaceholderElement + the DOM moves of
\* _startDragSequence.
startDragSequence(s, r, ev) ==
    LET s0 == IF isTouchEvent(ev) THEN [s EXCEPT !.ref[r].lastTouchEventTime = s.now] ELSE s
        me == s0.ref[r]
        element == me.rootElement
    IN
    IF element = Null THEN Throw(s0, "startDragSequence: root element is null")
    ELSE
    LET s1 == [s0 EXCEPT !.ref[r].nextSibling = NextSibling(s0.dom, element),
                        !.ref[r].preview = Preview(r),
                        !.ref[r].previewTransform =
                            IF me.previewTemplate
                            THEN getTransform(me.pickupPositionOnPage.x, me.pickupPositionOnPage.y)
                            ELSE getTransform(RootRect(r).left, RootRect(r).top),
                        !.ref[r].placeholder = Placeholder(r),
                        !.dom.display[r] = "none"]
        parent == ParentNode(s1.dom, element)
    IN
    IF parent = Null THEN Throw(s1, "startDragSequence: parentNode is null")
    ELSE
    LET d1 == ReplaceChild(s1.dom, parent, Placeholder(r), element)
        d2 == AppendChild(d1, Body, element)
        d3 == AppendChild(d2, Body, Preview(r))
        s2 == [s1 EXCEPT !.dom = d3]
    IN IF me.dropContainer # None THEN start(s2, me.dropContainer) ELSE s2

\* Variant of the container switch that forgets the new current container.
switchContainerKeepsCurrent(s, r, found, x, y) ==
    IF s.ref[r].dropContainer # found
    THEN LET e1 == IF s.ref[r].dropContainer # None
                   THEN exit(s, s.ref[r].dropContainer, r) ELSE s
         IN enter(e1, found, r, x, y)
    ELSE s

\* The container switch of _pointerMove: leave the current container, make
\* the container under the pointer the current one, enter it.
switchContainer(s, r, found, x, y) ==
    IF s.ref[r].dropContainer # found
    THEN LET e1 == IF s.ref[r].dropContainer # None
                   THEN exit(s, s.ref[r].dropContainer, r) ELSE s
             e2 == [e1 EXCEPT !.ref[r].dropContainer = found]
         IN enter(e2, found, r, x, y)
    ELSE s

\* Variant of the container-less branch that keeps the current container.
leaveContainerKeepsCurrent(s, r) ==
    IF s.ref[r].dropContainer # None THEN exit(s, s.ref[r].dropContainer, r) ELSE s

\* The container-less branch of _pointerMove: leave the current container,
\* if any, and have none.
leaveContainer(s, r) ==
    LET s3 == IF s.ref[r].dropContainer # None THEN exit(s, s.ref[r].dropContainer, r) ELSE s
    IN [s3 EXCEPT !.ref[r].dropContainer = None]

\* The part of _pointerMove that runs once the sequence has started.
dragMove(s, r, ev) ==
    LET me == s.ref[r]
        needRect == /\ me.boundaryElement # NoRect
                    /\ \/ me.previewRect = NoRect
                       \/ me.previewRect.width = 0 /\ me.previewRect.height = 0
    IN
    IF needRect /\ me.preview = Null /\ me.rootElement = Null
    THEN Throw(s, "pointerMove: preview and root element are null")
    ELSE
    LET previewRect == IF needRect
                       THEN (IF me.preview # Null THEN PreviewRect(r) ELSE RootRect(r))
                       ELSE me.previewRect
        s1 == [s EXCEPT !.ref[r].previewRect = previewRect]
    IN
    IF me.boundaryRect # NoRect /\ previewRect = NoRect
    THEN Throw(s1, "getConstrainedPointerPosition: previewRect is undefined")
    ELSE
    LET lock == IF me.dropContainer # None THEN s.drops[me.dropContainer].lockAxis ELSE None
        cpp == getConstrainedPointerPosition(getPointerPositionOnPage(ev),
                   s1.ref[r], lock)
        upd == updatePointerDirectionDelta(me.pointerDirectionDelta,
                   me.pointerPositionAtLastDirectionChange, cpp)
        s2 == [s1 EXCEPT !.ref[r].hasMoved = TRUE,
                         !.ref[r].pointerDirectionDelta = upd.delta,
                         !.ref[r].pointerPositionAtLastDirectionChange = upd.last]
        found == findElementUp(s2, r, ev.target)
        moved == getTransform(cpp.x - me.pickupPositionInElement.x,
                              cpp.y - me.pickupPositionInElement.y)
    IN
    IF found # None
    THEN
        LET s3 == switchContainer(s2, r, found, cpp.x, cpp.y)
            s4 == sortItem(s3, found, r, cpp.x, cpp.y, upd.delta)
        IN IF me.preview = Null THEN Throw(s4, "pointerMove: preview is null")
           ELSE [s4 EXCEPT !.ref[r].previewTransform = moved]
    ELSE
        LET s3 == leaveContainer(s2, r)
            s4 == [s3 EXCEPT !.ref[r].activeTransform =
                                 Pt(cpp.x - me.pickupPositionOnPage.x + me.passiveTransform.x,
                                    cpp.y - me.pickupPositionOnPage.y + me.passiveTransform.y)]
        IN IF me.preview = Null THEN Throw(s4, "pointerMove: preview is null")
           ELSE [s4 EXCEPT !.ref[r].previewTransform = moved]

\* Variant of _pointerMove without the early return below the threshold.
pointerMoveFallsThrough(s, r, ev) ==
    LET me == s.ref[r] IN
    IF ~me.hasStartedDragging
    THEN LET pointerPosition == getPointerPositionOnPage(ev)
             distanceX == Abs(pointerPosition.x - me.pickupPositionOnPage.x)
             distanceY == Abs(pointerPosition.y - me.pickupPositionOnPage.y)
         IN IF ThresholdReached(distanceX, distanceY)
            THEN startDragSequence([s EXCEPT !.ref[r].hasStartedDragging = TRUE], r, ev)
            ELSE dragMove(s, r, ev)
    ELSE dragMove(s, r, ev)

pointerMove(s, r, ev) ==
    LET me == s.ref[r] IN
    IF ~me.hasStartedDragging
    THEN LET pointerPosition == getPointerPositionOnPage(ev)
             distanceX == Abs(pointerPosition.x - me.pickupPositionOnPage.x)
             distanceY == Abs(pointerPosition.y - me.pickupPositionOnPage.y)
         IN IF ThresholdReached(distanceX, distanceY)
            THEN startDragSequence([s EXCEPT !.ref[r].hasStartedDragging = TRUE], r, ev)
            ELSE s
    ELSE dragMove(s, r, ev)

\* Variant of the drop arguments that reports the current container as origin.
DropArgumentsCurrentOrigin(s, r, up) ==
    LET container == s.ref[r].dropContainer IN
    <<getItemIndex(s, container, r), container,
      isOverContainer(container, up.x, up.y)>>

\* The values handed to the container's drop hook after the item.
DropArguments(s, r, up) ==
    LET container == s.ref[r].dropContainer IN
    <<getItemIndex(s, container, r), s.ref[r].initialContainer,
      isOverContainer(container, up.x, up.y)>>

\* Variant of the end of _cleanupDragArtifacts without the early return.
finishDropUnguarded(s, r, up) ==
    LET me == s.ref[r] IN
    IF me.dropContainer = None
    THEN Throw(s, "cleanupDragArtifacts: drop container is undefined")
    ELSE LET args == DropArguments(s, r, up)
             s4 == drop(s, me.dropContainer, r, args[1], args[2], args[3])
         IN [s4 EXCEPT !.ref[r].dropContainer = me.initialContainer]

\* The end of _cleanupDragArtifacts: nothing more without a current drop
\* container, else the drop hook and the return to the initial container.
finishDrop(s, r, up) ==
    LET me == s.ref[r] IN
    IF me.dropContainer = None THEN s
    ELSE LET args == DropArguments(s, r, up)
             s4 == drop(s, me.dropContainer, r, args[1], args[2], args[3])
         IN [s4 EXCEPT !.ref[r].dropContainer = me.initialContainer]

\* Variant of _cleanupDragArtifacts that leaves the cached rects.
cleanupDragArtifactsKeepsRects(s, r, up) ==
    LET me == s.ref[r] IN
    IF me.rootElement = Null THEN Throw(s, "cleanupDragArtifacts: root element is null")
    ELSE
    LET s1 == [s EXCEPT !.dom.display[r] = ""] IN
    IF me.nextSibling # Null /\ ParentNode(s.dom, me.nextSibling) = Null
    THEN Throw(s1, "cleanupDragArtifacts: parentNode of the next sibling is null")
    ELSE IF me.nextSibling = Null /\ me.initialContainer = None
    THEN Throw(s1, "cleanupDragArtifacts: initial container is undefined")
    ELSE
    LET d1 == IF me.nextSibling # Null
              THEN InsertBefore(s1.dom, ParentNode(s1.dom, me.nextSibling),
                                me.rootElement, me.nextSibling)
              ELSE AppendChild(s1.dom, El(me.initialContainer), me.rootElement)
        s2 == destroyPlaceholder(destroyPreview([s1 EXCEPT !.dom = d1], r), r)
    IN finishDrop(s2, r, up)

cleanupDragArtifacts(s, r, up) ==
    LET me == s.ref[r] IN
    IF me.rootElement = Null THEN Throw(s, "cleanupDragArtifacts: root element is null")
    ELSE
    LET s1 == [s EXCEPT !.dom.display[r] = ""] IN
    IF me.nextSibling # Null /\ ParentNode(s.dom, me.nextSibling) = Null
    THEN Throw(s1, "cleanupDragArtifacts: parentNode of the next sibling is null")
    ELSE IF me.nextSibling = Null /\ me.initialContainer = None
    THEN Throw(s1, "cleanupDragArtifacts: initial container is undefined")
    ELSE
    LET d1 == IF me.nextSibling # Null
              THEN InsertBefore(s1.dom, ParentNode(s1.dom, me.nextSibling),
                                me.rootElement, me.nextSibling)
              ELSE AppendChild(s1.dom, El(me.initialContainer), me.rootElement)
        s2 == destroyPlaceholder(destroyPreview([s1 EXCEPT !.dom = d1], r), r)
        s3 == [s2 EXCEPT !.ref[r].boundaryRect = NoRect, !.ref[r].previewRect = NoRect]
    IN finishDrop(s3, r, up)

\* Variant of the continuation that ends whatever drag the registry holds.
settledStopsAnyDrag(s, r, up) ==
    LET s1 == cleanupDragArtifacts(
                  [s EXCEPT !.pending[r] = "none", !.upEvent[r] = NoPoint], r, up) IN
    IF s1.threw THEN Caught(s1)
    ELSE [s1 EXCEPT !.registry.active = None]

\* The continuation of the settle promise in _pointerUp.
settled(s, r, up) ==
    LET s1 == cleanupDragArtifacts(
                  [s EXCEPT !.pending[r] = "none", !.upEvent[r] = NoPoint], r, up) IN
    IF s1.threw THEN Caught(s1)
    ELSE [s1 EXCEPT !.registry = stopDragging(@, r)]

\* Variant of _animatePreviewToPlaceholder that waits for the transition of
\* an element that never moved.
animatePreviewToPlaceholderUnmoved(s, r, ev) ==
    LET me == s.ref[r] IN
    IF me.placeholder = Null THEN Throw(s, "animatePreviewToPlaceholder: placeholder is null")
    ELSE IF me.preview = Null THEN Throw(s, "animatePreviewToPlaceholder: preview is null")
    ELSE LET s1 == [s EXCEPT !.ref[r].previewTransform =
                                 getTransform(RootRect(r).left, RootRect(r).top)]
         IN IF ev.duration = 0
            THEN [s1 EXCEPT !.pending[r] = "resolved"]
            ELSE [s1 EXCEPT !.pending[r] = "waiting"]

\* _animatePreviewToPlaceholder: "resolved", "waiting", or a throw.
animatePreviewToPlaceholder(s, r, ev) ==
    LET me == s.ref[r] IN
    IF ~me.hasMoved THEN [s EXCEPT !.pending[r] = "resolved"]
    ELSE IF me.placeholder = Null THEN Throw(s, "animatePreviewToPlaceholder: placeholder is null")
    ELSE IF me.preview = Null THEN Throw(s, "animatePreviewToPlaceholder: preview is null")
    ELSE LET s1 == [s EXCEPT !.ref[r].previewTransform =
                                 getTransform(RootRect(r).left, RootRect(r).top)]
         IN IF ev.duration = 0
            THEN [s1 EXCEPT !.pending[r] = "resolved"]
            ELSE [s1 EXCEPT !.pending[r] = "waiting"]

\* Variant of _pointerUp without the registry check.
pointerUpUnguarded(s, r, ev) ==
    LET s1 == removeSubscriptions(s, r)
        s2 == [s1 EXCEPT !.registry = stopDragging(@, r)]
    IN
    IF s2.ref[r].rootElement = Null THEN Throw(s2, "pointerUp: root element is null")
    ELSE IF ~s2.ref[r].hasStartedDragging THEN s2
    ELSE animatePreviewToPlaceholder([s2 EXCEPT !.upEvent[r] = ev.pos], r, ev)

pointerUp(s, r, ev) ==
    IF ~registryIsDragging(s.registry, r) THEN s
    ELSE
    LET s1 == removeSubscriptions(s, r)
        s2 == [s1 EXCEPT !.registry = stopDragging(@, r)]
    IN
    IF s2.ref[r].rootElement = Null THEN Throw(s2, "pointerUp: root element is null")
    ELSE IF ~s2.ref[r].hasStartedDragging THEN s2
    ELSE animatePreviewToPlaceholder([s2 EXCEPT !.upEvent[r] = ev.pos], r, ev)

\* toggleNativeDragInteractions(element, enable) of drag-styling: switches
\* the native drag affordances of the element on or off.
toggleNativeDragInteractions(d, element, enable) == [d EXCEPT !.native[element] = enable]

\* _toggleNativeDragInteractions()
refToggleNativeDragInteractions(s, r) ==
    LET me == s.ref[r] IN
    IF me.rootElement = Null THEN s
    ELSE LET shouldEnable == me.disabled \/ Len(me.handles) > 0 IN
         IF shouldEnable # me.nativeInteractionsEnabled
         THEN [s EXCEPT !.ref[r].nativeInteractionsEnabled = shouldEnable,
                        !.dom = toggleNativeDragInteractions(@, me.rootElement, shouldEnable)]
         ELSE s

\* Variant of the early return that does not look at the mouse button.
AbortSequenceAnyButton(s, r, ev) ==
    LET isTouchSequence == isTouchEvent(ev)
        isSyntheticEvent == /\ ~isTouchSequence
                            /\ s.ref[r].lastTouchEventTime # 0
                            /\ s.ref[r].lastTouchEventTime + MOUSE_EVENT_IGNORE_TIME > s.now
    IN isDragging(s, r) \/ isSyntheticEvent

\* The condition on which _initializeDragSequence returns early.
AbortSequence(s, r, ev) ==
    LET isTouchSequence == isTouchEvent(ev)
        isAuxiliaryMouseButton == ~isTouchSequence /\ ev.button # 0
        isSyntheticEvent == /\ ~isTouchSequence
                            /\ s.ref[r].lastTouchEventTime # 0
                            /\ s.ref[r].lastTouchEventTime + MOUSE_EVENT_IGNORE_TIME > s.now
    IN isDragging(s, r) \/ isAuxiliaryMouseButton \/ isSyntheticEvent

initializeDragSequence(s0, r, ev) ==
    IF AbortSequence(s0, r, ev) THEN s0
    ELSE
    LET s == refToggleNativeDragInteractions(s0, r)
        me == s.ref[r]
        parent == ParentNode(s.dom, me.element)
        pos == getPointerPositionOnPage(ev)
    IN
    IF parent = Null THEN Throw(s, "initializeDragSequence: parentElement is null")
    ELSE
    [s EXCEPT !.ref[r].hasStartedDragging = FALSE,
              !.ref[r].hasMoved = FALSE,
              !.ref[r].initialContainer = IF parent[1] = "drop-list" THEN parent[2] ELSE None,
              !.ref[r].moveSubLive = TRUE,
              !.ref[r].upSubLive = TRUE,
              !.ref[r].boundaryRect =
                  IF me.boundaryElement # NoRect THEN me.boundaryElement ELSE me.boundaryRect,
              !.ref[r].pickupPositionInElement =
                  IF me.previewTemplate THEN Zero ELSE getPointerPositionInElement(r, ev),
              !.ref[r].pickupPositionOnPage = pos,
              !.ref[r].pointerDirectionDelta = Zero,
              !.ref[r].pointerPositionAtLastDirectionChange = pos,
              !.registry = startDragging(
                  [s.registry EXCEPT !.pointerMove = Subscribe(@, r),
                                     !.pointerUp = Subscribe(@, r)], r)]

\* Array.prototype.find over the handles hs[i..]: index of the first handle
\* whose element is the target or contains it, 0 when there is none.
RECURSIVE findHandle(_, _, _)
findHandle(hs, target, i) ==
    IF i > Len(hs) THEN 0
    ELSE IF /\ target # Null
            /\ \/ target = hs[i].element
               \/ hs[i].element[1] = "handle" /\ target = Within(hs[i].element[2])
         THEN i
    ELSE findHandle(hs, target, i + 1)

\* Variant of the emission that a disabled ref does not make.
beforeStartedNextUnlessDisabled(s, r) ==
    IF s.ref[r].beforeStartedStopped \/ s.ref[r].disabled THEN s
    ELSE [s EXCEPT !.started = Append(@, [ref |-> r, seen |-> s.ref[r],
                                          active |-> s.registry.active])]

\* beforeStarted.next(): a Subject that has not completed passes the emission
\* to its observers, which see the ref and the registry as they are then.
beforeStartedNext(s, r) ==
    IF s.ref[r].beforeStartedStopped THEN s
    ELSE [s EXCEPT !.started = Append(@, [ref |-> r, seen |-> s.ref[r],
                                          active |-> s.registry.active])]

\* Variant of _pointerDown that starts from the root whatever handles exist.
pointerDownIgnoresHandles(s0, r, ev) ==
    LET s == beforeStartedNext(s0, r) IN
    IF ~s.ref[r].disabled THEN initializeDragSequence(s, r, ev) ELSE s

pointerDown(s0, r, ev) ==
    LET s == beforeStartedNext(s0, r)
        handles == s.ref[r].handles IN
    IF Len(handles) > 0
    THEN LET i == findHandle(handles, ev.target, 1) IN
         IF i # 0 /\ ~handles[i].disabled /\ ~s.ref[r].disabled
         THEN initializeDragSequence(s, r, ev)
         ELSE s
    ELSE IF ~s.ref[r].disabled THEN initializeDragSequence(s, r, ev) ELSE s

\* Variant of reset() that leaves the active transform.
resetPassiveOnly(s, r) ==
    IF s.ref[r].rootElement = Null THEN Throw(s, "reset: root element is null")
    ELSE [s EXCEPT !.ref[r].passiveTransform = Zero]

\* reset()
reset(s, r) ==
    IF s.ref[r].rootElement = Null THEN Throw(s, "reset: root element is null")
    ELSE [s EXCEPT !.ref[r].activeTransform = Zero, !.ref[r].passiveTransform = Zero]

\* set disabled(value)
setDisabled(s, r, value) ==
    IF value # s.ref[r].disabled
    THEN refToggleNativeDragInteractions([s EXCEPT !.ref[r].disabled = value], r)
    ELSE s

\* Variant of withRootElement that leaves the listeners of the previous root.
withRootElementKeepsListeners(s, r, element) ==
    IF element # s.ref[r].rootElement
    THEN [s EXCEPT !.dom.listeners[r] = @ \cup {element}, !.ref[r].rootElement = element]
    ELSE s

\* withRootElement(rootElement)
withRootElement(s, r, element) ==
    IF element # s.ref[r].rootElement
    THEN LET s1 == IF s.ref[r].rootElement # Null
                   THEN [s EXCEPT !.dom.listeners[r] = @ \ {s.ref[r].rootElement}]
                   ELSE s
         IN [s1 EXCEPT !.dom.listeners[r] = @ \cup {element}, !.ref[r].rootElement = element]
    ELSE s

\* handles.forEach(handle => toggleNativeDragInteractions(handle.element, false))
RECURSIVE disableHandles(_, _, _)
disableHandles(d, handles, i) ==
    IF i > Len(handles) THEN d
    ELSE disableHandles(toggleNativeDragInteractions(d, handles[i].element, FALSE),
                        handles, i + 1)

\* withHandles(handles)
withHandles(s, r, handles) ==
    refToggleNativeDragInteractions(
        [s EXCEPT !.ref[r].handles = handles, !.dom = disableHandles(@, handles, 1)], r)

\* withBoundaryElement(boundaryElement); the element is given by its
\* client rect, NoRect for null.
withBoundaryElement(s, r, boundaryElement) ==
    [s EXCEPT !.ref[r].boundaryElement = boundaryElement]

dispose(s, r) ==
    LET me == s.ref[r] IN
    IF me.rootElement = Null THEN Throw(s, "dispose: root element is null")
    ELSE
    LET s1 == [s EXCEPT !.dom.listeners[r] = @ \ {me.rootElement}]
        s2 == IF isDragging(s1, r)
              THEN [s1 EXCEPT !.dom = removeElement(@, me.rootElement)] ELSE s1
        s3 == destroyPlaceholder(destroyPreview(s2, r), r)
        s4 == [s3 EXCEPT !.registry = removeDragItem(@, r)]
        s5 == removeSubscriptions(s4, r)
    IN [s5 EXCEPT !.ref[r].beforeStartedStopped = TRUE,
                  !.ref[r].handles = <<>>,
                  !.ref[r].boundaryElement = NoRect,
                  !.ref[r].rootElement = Null,
                  !.ref[r].previewTemplate = FALSE,
                  !.ref[r].nextSibling = Null]

\* ------------------------------------------------------ stream emission
\* Subject.next: every observer that is still open when its turn comes is
\* called; an observer whose handler throws is closed and the error is
\* reported to the host.
RECURSIVE emitMove(_, _, _, _)
emitMove(s, i, n, ev) ==
    IF i > n THEN s
    ELSE LET o == s.registry.pointerMove[i] IN
         IF o.closed THEN emitMove(s, i + 1, n, ev)
         ELSE LET s1 == pointerMove(s, o.ref, ev)
                  s2 == IF s1.threw
                        THEN [Caught(s1) EXCEPT
                                !.ref[o.ref].moveSubLive =
                                    @ /\ i # LastOf(s1.registry.pointerMove, o.ref),
                                !.registry.pointerMove = Close(@, i)]
                        ELSE s1
              IN emitMove(s2, i + 1, n, ev)

RECURSIVE emitUp(_, _, _, _)
emitUp(s, i, n, ev) ==
    IF i > n THEN s
    ELSE LET o == s.registry.pointerUp[i] IN
         IF o.closed THEN emitUp(s, i + 1, n, ev)
         ELSE LET s1 == pointerUp(s, o.ref, ev)
                  s2 == IF s1.threw
                        THEN [Caught(s1) EXCEPT
                                !.ref[o.ref].upSubLive =
                                    @ /\ i # LastOf(s1.registry.pointerUp, o.ref),
                                !.registry.pointerUp = Close(@, i)]
                        ELSE s1
              IN emitUp(s2, i + 1, n, ev)

\* The promise continuations that are ready run once the running task ends.
RECURSIVE drain(_, _)
drain(s, todo) ==
    IF todo = {} THEN s
    ELSE LET r == CHOOSE q \in todo : TRUE IN
         drain(IF s.pending[r] = "resolved" THEN settled(s, r, s.upEvent[r]) ELSE s,
               todo \ {r})

endTask(s) ==
    LET s1 == drain(s, Refs) IN
    [s1 EXCEPT !.registry.pointerMove = Compact(@), !.registry.pointerUp = Compact(@)]
\* ----------------------------------------------------------------- state
VARIABLES
    ref,        \* the fields of every RaDesignDragRef
    registry,   \* the drag/drop registry and its two streams
    dom,        \* children of the parent elements, display and listeners of the roots
    drops,      \* the drop containers
    pending,    \* per ref: state of the settle promise of _pointerUp
    upEvent,    \* per ref: the pointer-up position its settle continuation holds
    calls,      \* container hooks called by the last event, in order
    uncaught,   \* errors thrown and not caught during the last event
    lastEvent,  \* the event handled last
    now,        \* Date.now(), in ms
    hooks,      \* per ref and container: the last enter / exit hook the container
                \* received for the ref in the ref's drag sequence in progress
    probe,      \* arguments and result of one call of _getConstrainedPointerPosition
    tools,      \* the fields of RaDesignToolsService
    budget      \* events the scenario may still deliver

vars == <<ref, registry, dom, drops, pending, upEvent, calls, uncaught, lastEvent,
          now, hooks, probe, tools, budget>>

\* Container whose element is the parent of r's root element on the page.
Home(r) == IF r = "r1" THEN "A" ELSE "B"

NewRef(r) ==
    [rootElement |-> Root(r), element |-> Root(r), disabled |-> FALSE,
     hasStartedDragging |-> FALSE, hasMoved |-> FALSE,
     passiveTransform |-> Zero, activeTransform |-> Zero,
     pickupPositionInElement |-> NoPoint, pickupPositionOnPage |-> NoPoint,
     pointerDirectionDelta |-> NoPoint, pointerPositionAtLastDirectionChange |-> NoPoint,
     dropContainer |-> None, initialContainer |-> None,
     preview |-> Null, placeholder |-> Null, previewTransform |-> NoPoint,
     nextSibling |-> Null, boundaryElement |-> NoRect, boundaryRect |-> NoRect,
     previewRect |-> NoRect, previewTemplate |-> FALSE, lockAxis |-> None,
     lastTouchEventTime |-> 0,
     handles |-> <<>>, nativeInteractionsEnabled |-> TRUE,
     beforeStartedStopped |-> FALSE,
     moveSubLive |-> FALSE, upSubLive |-> FALSE]

NewRegistry == [dragItems |-> {}, active |-> None, pointerMove |-> <<>>, pointerUp |-> <<>>]

NewDrops ==
    [c \in Containers |->
        [items |-> IF c = "A" THEN <<"r1", "x">> ELSE <<"y", "r2">>,
         lockAxis |-> None, accepts |-> TRUE]]

\* ------------------------------------------------- RaDesignToolsService
ToolsPositions == {"left-top", "left-bottom", "right-top", "right-bottom"}

\* The tools init() registers, in order.
BuiltInTools ==
    <<[factory |-> "dataSource", position |-> "left-top", order |-> 1, select |-> TRUE],
      [factory |-> "page", position |-> "left-top", order |-> 2, select |-> FALSE],
      [factory |-> "component", position |-> "left-top", order |-> 3, select |-> FALSE],
      [factory |-> "icon", position |-> "left-bottom", order |-> 4, select |-> FALSE],
      [factory |-> "propertiesEditor", position |-> "right-top", order |-> 1, select |-> FALSE]>>

\* The service after construction.  left and right hold references to the
\* tools of toolsList, given by their index there; toolsMap likewise.
NewTools ==
    [toolsList |-> <<>>, left |-> <<>>, right |-> <<>>, toolsMap |-> {}, threw |-> FALSE]

\* Variant of the switch whose default branch leaves the tool out.
placeToolSkipsUnknown(t, i) ==
    LET position == t.toolsList[i].position IN
    IF position = "left-top" THEN [t EXCEPT !.left = Append(@, i)]
    ELSE IF position = "left-bottom"
         THEN [t EXCEPT !.toolsList[i].order = @ + 100, !.left = Append(@, i)]
    ELSE IF position = "right-top" THEN [t EXCEPT !.right = Append(@, i)]
    ELSE IF position = "right-bottom"
         THEN [t EXCEPT !.toolsList[i].order = @ + 100, !.right = Append(@, i)]
    ELSE t

\* switch (tools.position) of init(), for the tool toolsList[i]
placeTool(t, i) ==
    LET position == t.toolsList[i].position IN
    IF position = "left-top" THEN [t EXCEPT !.left = Append(@, i)]
    ELSE IF position = "left-bottom"
         THEN [t EXCEPT !.toolsList[i].order = @ + 100, !.left = Append(@, i)]
    ELSE IF position = "right-top" THEN [t EXCEPT !.right = Append(@, i)]
    ELSE IF position = "right-bottom"
         THEN [t EXCEPT !.toolsList[i].order = @ + 100, !.right = Append(@, i)]
    ELSE [t EXCEPT !.threw = TRUE]

\* toolsList.forEach of init(), from the tool toolsList[i] on; a throw ends it.
RECURSIVE forEachTool(_, _)
forEachTool(t, i) ==
    IF i > Len(t.toolsList) THEN t
    ELSE LET factory == t.toolsList[i].factory
             t1 == [t EXCEPT !.toolsMap = {e \in @ : e[1] # factory} \cup {<<factory, i>>}]
             t2 == placeTool(t1, i)
         IN IF t2.threw THEN t2 ELSE forEachTool(t2, i + 1)

\* RaDesignToolsService.init
init(t) == forEachTool([t EXCEPT !.toolsList = @ \o BuiltInTools, !.threw = FALSE], 1)

\* Variant of showTools that leaves the other tools of the position alone.
showToolsKeepsOthers(t, i) == [t EXCEPT !.toolsList[i].select = ~@]

\* RaDesignToolsService.showTools, for the tool toolsList[i] (the refresh of
\* the component's view changes no field of the service)
showTools(t, i) ==
    LET position == t.toolsList[i].position
        list == [j \in DOMAIN t.toolsList |->
                    IF t.toolsList[j].position = position /\ j # i
                    THEN [t.toolsList[j] EXCEPT !.select = FALSE]
                    ELSE t.toolsList[j]]
    IN [t EXCEPT !.toolsList = [list EXCEPT ![i].select = ~@]]

\* The clock advances in steps of half the ignore time; it starts past 0.
ClockStep == MOUSE_EVENT_IGNORE_TIME \div 2

NoEvent == [type |-> "none", ref |-> None, pos |-> NoPoint, at |-> 0,
            touch |-> FALSE, button |-> 0, target |-> Null, started |-> <<>>,
            propertyName |-> "", duration |-> 0]
NoHooks == [c \in Containers |-> "none"]
NoProbe == [undefined |-> TRUE]

\* The enter / exit hooks of the calls cs[i..], recorded on top of h.
RECURSIVE RecordHooks(_, _, _)
RecordHooks(h, cs, i) ==
    IF i > Len(cs) THEN h
    ELSE LET c == cs[i] IN
         RecordHooks(IF c[1] \in {"enter", "exit"} THEN [h EXCEPT ![c[3]][c[2]] = c[1]] ELSE h,
                     cs, i + 1)

\* A drag sequence of r is in progress: from the pointer-down to the end of
\* the settle continuation.
InSequence(s, r) == registryIsDragging(s.registry, r) \/ s.pending[r] # "none"

\* The page after the construction of the two refs rs, n events to come.
StartFrom(n, rs) ==
    /\ ref = rs
    /\ registry = [NewRegistry EXCEPT !.dragItems = Refs]
    /\ dom = [children |-> InitialChildren,
              display |-> [r \in Refs |-> ""],
              listeners |-> [r \in Refs |-> {Root(r)}],
              native |-> [e \in Styled |-> TRUE]]
    /\ drops = NewDrops
    /\ pending = [r \in Refs |-> "none"]
    /\ upEvent = [r \in Refs |-> NoPoint]
    /\ calls = <<>>
    /\ uncaught = {}
    /\ lastEvent = NoEvent
    /\ now = ClockStep
    /\ hooks = [r \in Refs |-> NoHooks]
    /\ probe = NoProbe
    /\ tools = NewTools
    /\ budget = n

Start(n) == StartFrom(n, [r \in Refs |-> NewRef(r)])

Init == Start(MaxEvents)

\* The state a handler starts from, and the state it leaves behind.
Cur == [ref |-> ref, registry |-> registry, dom |-> dom, drops |-> drops,
        pending |-> pending, upEvent |-> upEvent, now |-> now,
        calls |-> <<>>, uncaught |-> {}, threw |-> FALSE, started |-> <<>>]

Commit(s, e) ==
    /\ ref' = s.ref
    /\ registry' = s.registry
    /\ dom' = s.dom
    /\ drops' = s.drops
    /\ pending' = s.pending
    /\ upEvent' = s.upEvent
    /\ calls' = s.calls
    /\ uncaught' = s.uncaught
    /\ lastEvent' = [type |-> e.type, ref |-> e.ref, pos |-> e.pos, at |-> s.now,
                     touch |-> "touch" \in DOMAIN e /\ e.touch,
                     button |-> IF "button" \in DOMAIN e THEN e.button ELSE 0,
                     target |-> IF "target" \in DOMAIN e THEN e.target ELSE Null,
                     started |-> s.started,
                     propertyName |-> IF "propertyName" \in DOMAIN e
                                      THEN e.propertyName ELSE "",
                     duration |-> IF "duration" \in DOMAIN e THEN e.duration ELSE 0]
    /\ now' = s.now
    /\ hooks' = LET h == RecordHooks(hooks, s.calls, 1) IN
                [r \in Refs |-> IF InSequence(s, r) THEN h[r] ELSE NoHooks]
    /\ probe' = probe
    /\ tools' = tools

\* --------------------------------------------------------------- actions
\* transition-duration of .cdk-drag-animating, in ms
TransitionDuration == 250

\* mousedown on the root element of r, at a point of P.  The browser targets
\* the event at a rendered element of the document that carries the listener.
PointerDownAt(r, P) ==
    /\ Root(r) \in dom.listeners[r]
    /\ dom.display[r] = ""
    /\ InDocument(dom, Root(r))
    /\ Len(registry.pointerMove) < MaxSubs
    /\ \E p \in PointsOn(r) \cap P :
        LET ev == [type |-> "mousedown", pos |-> p, button |-> 0, target |-> Root(r)] IN
        Commit(endTask(Caught(pointerDown(Cur, r, ev))),
               [type |-> "pointerdown", ref |-> r, pos |-> p])

\* mousemove on the document, at a point of P, while the registry broadcasts.
PointerMoveAt(P) ==
    /\ registry.active # None
    /\ \E p \in P :
        LET ev == [type |-> "mousemove", pos |-> p, target |-> TargetAt(p)] IN
        Commit(endTask(emitMove(Cur, 1, Len(registry.pointerMove), ev)),
               [type |-> "pointermove", ref |-> None, pos |-> p])

\* mouseup on the document, at a point of P, while the registry broadcasts;
\* D holds the transition durations the preview's style may have.
PointerUpAt(P, D) ==
    /\ registry.active # None
    /\ \E p \in P, d \in D :
        LET ev == [type |-> "mouseup", pos |-> p, duration |-> d] IN
        Commit(endTask(emitUp(Cur, 1, Len(registry.pointerUp), ev)),
               [type |-> "pointerup", ref |-> None, pos |-> p, duration |-> d])

\* The transitionend listener of _animatePreviewToPlaceholder.
TransitionEnd(r) ==
    /\ pending[r] = "waiting"
    /\ \E target \in {Preview(r), <<"child", r>>}, propertyName \in {"transform", "opacity"} :
        LET s == IF target = ref[r].preview /\ propertyName = "transform"
                 THEN [Cur EXCEPT !.pending[r] = "resolved"]
                 ELSE Cur
        IN Commit(endTask(s), [type |-> "transitionend", ref |-> r, pos |-> NoPoint,
                               target |-> target, propertyName |-> propertyName])

\* Variant of the fallback timer whose callback does nothing.
SettleTimeoutLost(r) ==
    /\ pending[r] = "waiting"
    /\ Commit(endTask(Cur), [type |-> "timeout", ref |-> r, pos |-> NoPoint])

\* The fallback timer of _animatePreviewToPlaceholder.
SettleTimeout(r) ==
    /\ pending[r] = "waiting"
    /\ LET s == IF ref[r].preview = Null
                THEN Caught(Throw([Cur EXCEPT !.pending[r] = "none", !.upEvent[r] = NoPoint],
                                  "animatePreviewToPlaceholder: preview is null"))
                ELSE [Cur EXCEPT !.pending[r] = "resolved"]
       IN Commit(endTask(s), [type |-> "timeout", ref |-> r, pos |-> NoPoint])

Dispose(r) ==
    /\ ref[r].rootElement # Null
    /\ Commit(endTask(Caught(dispose(Cur, r))), [type |-> "dispose", ref |-> r, pos |-> NoPoint])

\* Every event of a scenario takes one from the budget.
Spend == budget > 0 /\ budget' = budget - 1

\* One draggable in use, the pointer anywhere on the page.

Next ==
    \/ Spend /\ PointerDownAt("r1", Points)
    \/ Spend /\ PointerMoveAt(Points)
    \/ Spend /\ PointerUpAt(Points, {0, TransitionDuration})
    \/ Spend /\ TransitionEnd("r1")
    \/ Spend /\ SettleTimeout("r1")
    \/ Spend /\ Dispose("r1")

Spec == Init /\ [][Next]_vars

\* Both draggables in use, r2 with or without a boundary element, the
\* pointer pressed and released on the top row of the page and moved
\* anywhere on it, previews without a transition.
TopRow == {p \in Points : p.y = 0}
PageRect == Rect(0, 0, MaxX + 1, MaxY + 1)
InitTwo ==
    \E b \in {NoRect, PageRect} :
        StartFrom(MaxEventsTwo,
                  withBoundaryElement([ref |-> [r \in Refs |-> NewRef(r)]], "r2", b).ref)

NextTwo ==
    \/ Spend /\ \E r \in Refs : PointerDownAt(r, TopRow)
    \/ Spend /\ PointerMoveAt(Points)
    \/ Spend /\ PointerUpAt(TopRow, {0})
    \/ Spend /\ \E r \in Refs : Dispose(r)

SpecTwo == InitTwo /\ [][NextTwo]_vars

\* Both draggables in use, previews with a transition: a ref can be pressed
\* while the other one waits for its preview to settle.
MaxEventsWindow == 6
NextWindow ==
    \/ Spend /\ \E r \in Refs : PointerDownAt(r, TopRow)
    \/ Spend /\ PointerMoveAt(Points)
    \/ Spend /\ PointerUpAt(TopRow, {TransitionDuration})
    \/ Spend /\ \E r \in Refs : TransitionEnd(r)
    \/ Spend /\ \E r \in Refs : SettleTimeout(r)

SpecWindow == Start(MaxEventsWindow) /\ [][NextWindow]_vars

\* One draggable in use with touch and mouse input, primary and secondary
\* mouse button, the disabled flag, reset() and a clock; the pointer on the
\* top row, previews without a transition.
PointerDownOf(r, P, T, B) ==
    /\ Root(r) \in dom.listeners[r]
    /\ dom.display[r] = ""
    /\ InDocument(dom, Root(r))
    /\ Len(registry.pointerMove) < MaxSubs
    /\ \E p \in PointsOn(r) \cap P, type \in T, b \in B :
        LET ev == [type |-> type, pos |-> p, button |-> b, target |-> Root(r)] IN
        Commit(endTask(Caught(pointerDown(Cur, r, ev))),
               [type |-> "pointerdown", ref |-> r, pos |-> p,
                touch |-> isTouchEvent(ev), button |-> b])

PointerMoveOf(P, T) ==
    /\ registry.active # None
    /\ \E p \in P, type \in T :
        LET ev == [type |-> type, pos |-> p, target |-> TargetAt(p)] IN
        Commit(endTask(emitMove(Cur, 1, Len(registry.pointerMove), ev)),
               [type |-> "pointermove", ref |-> None, pos |-> p, touch |-> isTouchEvent(ev)])

PointerUpOf(P, T) ==
    /\ registry.active # None
    /\ \E p \in P, type \in T :
        LET ev == [type |-> type, pos |-> p, duration |-> 0] IN
        Commit(endTask(emitUp(Cur, 1, Len(registry.pointerUp), ev)),
               [type |-> "pointerup", ref |-> None, pos |-> p, touch |-> isTouchEvent(ev)])

Reset(r) ==
    Commit(endTask(Caught(reset(Cur, r))), [type |-> "reset", ref |-> r, pos |-> NoPoint])

SetDisabled(r) ==
    \E value \in BOOLEAN :
        /\ value # ref[r].disabled
        /\ Commit(endTask(setDisabled(Cur, r, value)),
                  [type |-> "disabled", ref |-> r, pos |-> NoPoint])

\* Time passes.
Tick ==
    /\ now < MaxTicks * ClockStep
    /\ now' = now + ClockStep
    /\ UNCHANGED <<ref, registry, dom, drops, pending, upEvent, calls, uncaught,
                   lastEvent, hooks, probe, tools, budget>>

InitIn == Start(MaxEventsIn)

NextIn ==
    \/ Spend /\ PointerDownOf("r1", TopRow, {"mousedown", "touchstart"}, {0, 2})
    \/ Spend /\ PointerMoveOf(TopRow, {"mousemove", "touchmove"})
    \/ Spend /\ PointerUpOf(TopRow, {"mouseup", "touchend"})
    \/ Spend /\ Reset("r1")
    \/ Spend /\ SetDisabled("r1")
    \/ Tick

SpecIn == InitIn /\ [][NextIn]_vars

\* The configuration of one draggable: its root element, its handles and
\* its disabled flag change between pointer-downs on the root, on a handle
\* or inside one, each released again.
HandleLists ==
    LET H == [element : {Handle(i) : i \in HandleIds}, disabled : BOOLEAN] IN
    {<<>>} \cup {<<h>> : h \in H}
           \cup {<<h, g>> : h \in {x \in H : x.element = Handle("h1")},
                            g \in {x \in H : x.element = Handle("h2")}}

\* The elements an event targeted at t passes on its way up the document.
Path(t) ==
    IF t[1] = "within" THEN {t, Handle(t[2]), Root("r1"), Alt("r1")}
    ELSE IF t[1] = "handle" THEN {t, Root("r1"), Alt("r1")}
    ELSE IF t[1] = "root" THEN {t, Alt(t[2])}
    ELSE {t}

Targets(r) ==
    {Root(r), Alt(r)} \cup
    (IF r = "r1" THEN {Handle(i) : i \in HandleIds} \cup {Within(i) : i \in HandleIds} ELSE {})

\* mousedown targeted at t, at a point of P, reaching the listener of r.
PointerDownTarget(r, t, P) ==
    /\ dom.listeners[r] \cap Path(t) # {}
    /\ dom.display[r] = ""
    /\ Len(registry.pointerMove) < MaxSubs
    /\ \E p \in PointsOn(r) \cap P :
        LET ev == [type |-> "mousedown", pos |-> p, button |-> 0, target |-> t] IN
        Commit(endTask(Caught(pointerDown(Cur, r, ev))),
               [type |-> "pointerdown", ref |-> r, pos |-> p, target |-> t])

WithRootElement(r) ==
    \E element \in {Root(r), Alt(r)} :
        Commit(endTask(withRootElement(Cur, r, element)),
               [type |-> "withRootElement", ref |-> r, pos |-> NoPoint, target |-> element])

WithHandles(r) ==
    \E handles \in HandleLists :
        Commit(endTask(withHandles(Cur, r, handles)),
               [type |-> "withHandles", ref |-> r, pos |-> NoPoint])

MaxEventsSetup == 4

NextSetup ==
    \/ Spend /\ \E t \in Targets("r1") : PointerDownTarget("r1", t, {Zero})
    \/ Spend /\ PointerUpAt({Zero}, {0})
    \/ Spend /\ WithRootElement("r1")
    \/ Spend /\ WithHandles("r1")
    \/ Spend /\ SetDisabled("r1")

SpecSetup == Start(MaxEventsSetup) /\ [][NextSetup]_vars

\* The same configuration changes and pointer-downs, and dispose() among
\* them: a disposed ref may be given a root element again.
NextStarted ==
    \/ NextSetup
    \/ Spend /\ Dispose("r1")

SpecStarted == Start(MaxEventsSetup) /\ [][NextStarted]_vars

\* One draggable whose boundary element is set and cleared between and
\* during its drag sequences, the pointer on the top row, previews without
\* a transition.  The boundary leaves out the last column of the page.
MaxEventsBoundary == 7
NarrowRect == Rect(0, 0, MaxX, MaxY + 1)

WithBoundaryElement(r) ==
    \E b \in {NoRect, NarrowRect} :
        Commit(endTask(withBoundaryElement(Cur, r, b)),
               [type |-> "withBoundaryElement", ref |-> r, pos |-> NoPoint])

NextBoundary ==
    \/ Spend /\ PointerDownAt("r1", TopRow)
    \/ Spend /\ PointerMoveAt(TopRow)
    \/ Spend /\ PointerUpAt(TopRow, {0})
    \/ Spend /\ WithBoundaryElement("r1")

SpecBoundary == Start(MaxEventsBoundary) /\ [][NextBoundary]_vars

\* The tools service alone: init() called on a service whose tools list
\* already holds up to MaxTools tools of any position, valid or not.
MaxTools == 2
MaxInits == 2
\* The lists of at most n tools, each of one of the four positions or of
\* an unknown one.
RECURSIVE ToolsLists(_)
ToolsLists(n) ==
    IF n = 0 THEN {<<>>}
    ELSE LET shorter == ToolsLists(n - 1)
             inputs == [factory : {"custom"}, position : ToolsPositions \cup {"center"},
                        order : {1, 2}, select : {FALSE}]
         IN shorter \cup {Append(l, x) : l \in {s \in shorter : Len(s) = n - 1}, x \in inputs}

InitTools ==
    /\ ref = [r \in Refs |-> NewRef(r)]
    /\ registry = [NewRegistry EXCEPT !.dragItems = Refs]
    /\ dom = [children |-> InitialChildren,
              display |-> [r \in Refs |-> ""],
              listeners |-> [r \in Refs |-> {Root(r)}],
              native |-> [e \in Styled |-> TRUE]]
    /\ drops = NewDrops
    /\ pending = [r \in Refs |-> "none"]
    /\ upEvent = [r \in Refs |-> NoPoint]
    /\ calls = <<>>
    /\ uncaught = {}
    /\ lastEvent = NoEvent
    /\ now = ClockStep
    /\ hooks = [r \in Refs |-> NoHooks]
    /\ probe = NoProbe
    /\ budget = MaxInits
    /\ \E l \in ToolsLists(MaxTools) : tools = [NewTools EXCEPT !.toolsList = l]

\* init() is called.
NextTools ==
    /\ Spend
    /\ tools' = init(tools)
    /\ UNCHANGED <<ref, registry, dom, drops, pending, upEvent, calls, uncaught,
                   lastEvent, now, hooks, probe>>

SpecTools == InitTools /\ [][NextTools]_vars

\* The tools service in use: init() is called once, then tools of the list
\* are shown and hidden in any order.
NextShow ==
    \/ /\ Spend
       /\ tools.toolsMap = {}
       /\ tools' = init(tools)
       /\ UNCHANGED <<ref, registry, dom, drops, pending, upEvent, calls, uncaught,
                      lastEvent, now, hooks, probe>>
    \/ /\ tools.toolsMap # {}
       /\ \E i \in DOMAIN tools.toolsList : tools' = showTools(tools, i)
       /\ UNCHANGED <<ref, registry, dom, drops, pending, upEvent, calls, uncaught,
                      lastEvent, now, hooks, probe, budget>>

SpecShow == InitTools /\ [][NextShow]_vars

\* One draggable over containers that accept or reject it and may lock an
\* axis, the pointer pressed and released at the origin and moved anywhere
\* on the page, previews without a transition.
MaxEventsAccept == 5

InitAccept ==
    /\ ref = [r \in Refs |-> NewRef(r)]
    /\ registry = [NewRegistry EXCEPT !.dragItems = Refs]
    /\ dom = [children |-> InitialChildren,
              display |-> [r \in Refs |-> ""],
              listeners |-> [r \in Refs |-> {Root(r)}],
              native |-> [e \in Styled |-> TRUE]]
    /\ \E accepts \in [Containers -> BOOLEAN], lockB \in {None, "y"} :
          drops = [c \in Containers |->
                      [NewDrops[c] EXCEPT !.accepts = accepts[c],
                                          !.lockAxis = IF c = "B" THEN lockB ELSE None]]
    /\ pending = [r \in Refs |-> "none"]
    /\ upEvent = [r \in Refs |-> NoPoint]
    /\ calls = <<>>
    /\ uncaught = {}
    /\ lastEvent = NoEvent
    /\ now = ClockStep
    /\ hooks = [r \in Refs |-> NoHooks]
    /\ probe = NoProbe
    /\ tools = NewTools
    /\ budget = MaxEventsAccept


NextAccept ==
    \/ Spend /\ PointerDownAt("r1", {Zero})
    \/ Spend /\ PointerMoveAt(Points)
    \/ Spend /\ PointerUpAt({Zero}, {0})

SpecAccept == InitAccept /\ [][NextAccept]_vars

\* One draggable in use, the pointer on the top row, previews with and
\* without a transition.  A bounded number of user events is delivered; the
\* fallback timer set by setTimeout is not a user event, and the host's event
\* loop runs the callback of every timer that is not cleared.
InitLive == Start(MaxEventsLive)
SettleTimeoutLive == SettleTimeout("r1") /\ UNCHANGED budget

NextLive ==
    \/ Spend /\ PointerDownAt("r1", TopRow)
    \/ Spend /\ PointerMoveAt(TopRow)
    \/ Spend /\ PointerUpAt(TopRow, {0, TransitionDuration})
    \/ Spend /\ TransitionEnd("r1")
    \/ Spend /\ Dispose("r1")
    \/ SettleTimeoutLive

\* The step of SettleTimeoutLive, told by the event it records: no other
\* action records a timeout.  The callback of a timer that was set and not
\* cleared is eventually run.
TimerFires ==
    /\ pending["r1"] = "waiting"
    /\ lastEvent' = [type |-> "timeout", ref |-> "r1", pos |-> NoPoint, at |-> now,
                     touch |-> FALSE, button |-> 0, target |-> Null,
                     started |-> <<>>, propertyName |-> "", duration |-> 0]

SpecLive == InitLive /\ [][NextLive]_vars /\ WF_lastEvent(TimerFires)

\* _getConstrainedPointerPosition on its own: the boundary rect (none, or a
\* rect with its corner at (1, 1)), the cached preview size, the pickup
\* offset (a point of the element), the two lock axes and the pointer are free.
LockAxisValues == {None, "x", "y"}
Boundaries == {NoRect} \cup {Rect(1, 1, bw, bh) : bw \in 1..MaxGeo, bh \in 1..MaxGeo}
ProbeInput(p, o, pw, ph, b, la, dl) ==
    [point |-> p,
     pickupPositionInElement |-> o,
     pickupPositionOnPage |-> Pt(1 + o.x, 1 + o.y),
     boundaryRect |-> b,
     previewRect |-> Rect(0, 0, pw, ph),
     lockAxis |-> la, dropLock |-> dl, result |-> NoPoint]

InitGeometry ==
    /\ ref = [r \in Refs |-> NewRef(r)]
    /\ registry = [NewRegistry EXCEPT !.dragItems = Refs]
    /\ dom = [children |-> InitialChildren,
              display |-> [r \in Refs |-> ""],
              listeners |-> [r \in Refs |-> {Root(r)}],
              native |-> [e \in Styled |-> TRUE]]
    /\ drops = NewDrops
    /\ pending = [r \in Refs |-> "none"]
    /\ upEvent = [r \in Refs |-> NoPoint]
    /\ calls = <<>>
    /\ uncaught = {}
    /\ lastEvent = NoEvent
    /\ now = ClockStep
    /\ hooks = [r \in Refs |-> NoHooks]
    /\ tools = NewTools
    /\ budget = 1
    /\ \E pw \in 1..MaxGeo, ph \in 1..MaxGeo, b \in Boundaries,
          la \in LockAxisValues, dl \in LockAxisValues :
        \E px \in 0..(MaxGeo + 2), py \in 0..(MaxGeo + 2), ox \in 0..(pw - 1), oy \in 0..(ph - 1) :
            probe = ProbeInput(Pt(px, py), Pt(ox, oy), pw, ph, b, la, dl)

Constrain ==
    /\ Spend
    /\ probe.result = NoPoint
    /\ probe' = [probe EXCEPT !.result =
                     getConstrainedPointerPosition(probe.point, probe, probe.dropLock)]
    /\ UNCHANGED <<ref, registry, dom, drops, pending, upEvent, calls, uncaught,
                   lastEvent, now, hooks, tools>>

NextGeometry == Constrain

SpecGeometry == InitGeometry /\ [][NextGeometry]_vars

\* ================================================================ claims
Distance(p, q) == Abs(p.x - q.x) + Abs(p.y - q.y)
Moved == lastEvent.type = "pointermove"

\* C1: isDragging() is false initially and turns true only on a pointer-move
\* whose Manhattan distance from the pickup point is at least
\* dragStartThreshold; whenever it is true the registry has the ref as its
\* active drag.
C1_DraggingOnlyPastThreshold ==
    /\ \A r \in Refs : ~isDragging(Cur, r)
    /\ [](\A r \in Refs : isDragging(Cur, r) => registryIsDragging(registry, r))
    /\ [][\A r \in Refs :
            (~isDragging(Cur, r) /\ isDragging(Cur, r)') =>
                /\ lastEvent'.type = "pointermove"
                /\ Distance(lastEvent'.pos, ref[r].pickupPositionOnPage) >= dragStartThreshold]_vars

C1_Witness ==
    /\ Moved
    /\ isDragging(Cur, "r1")
    /\ ~ref["r1"].hasMoved
    /\ Distance(lastEvent.pos, ref["r1"].pickupPositionOnPage) >= dragStartThreshold

\* A ref with a sequence in progress that has not crossed the threshold.
Armed(r) == registryIsDragging(registry, r) /\ ~ref[r].hasStartedDragging

\* C2: in the Armed state a pointer-move at a distance of dragStartThreshold
\* or more (equality included) starts the drag on that very event, preview
\* and placeholder created; a move at a smaller distance leaves the ref Armed
\* and creates neither.
C2_ThresholdStartsDrag ==
    [][\A r \in Refs :
        (Armed(r) /\ lastEvent'.type = "pointermove") =>
            LET d == Distance(lastEvent'.pos, ref[r].pickupPositionOnPage) IN
            /\ d >= dragStartThreshold =>
                /\ isDragging(Cur, r)'
                /\ ref'[r].preview # Null /\ ref'[r].placeholder # Null
                /\ InDocument(dom', ref'[r].preview) /\ InDocument(dom', ref'[r].placeholder)
            /\ d < dragStartThreshold =>
                /\ Armed(r)'
                /\ ref'[r].preview = Null /\ ref'[r].placeholder = Null
                /\ dom' = dom]_vars

\* A drag that started on a move at exactly the threshold distance.
C2_Witness ==
    /\ Moved
    /\ isDragging(Cur, "r1")
    /\ ~ref["r1"].hasMoved
    /\ ref["r1"].preview # Null
    /\ Distance(lastEvent.pos, ref["r1"].pickupPositionOnPage) = dragStartThreshold

PointerDownOn(r) == lastEvent'.type = "pointerdown" /\ lastEvent'.ref = r

\* C3: a pointer-down delivered to a ref that already has a sequence in
\* progress (the registry holds it as the active drag) is rejected: pickup
\* position, hasStartedDragging, hasMoved, the ref's subscriptions and the
\* registry (streams, active slot) stay as they were.
C3_SecondPointerDownRejected ==
    [][\A r \in Refs :
        (PointerDownOn(r) /\ registryIsDragging(registry, r)) =>
            /\ ref'[r] = ref[r]
            /\ registry' = registry]_vars

\* Refs with an open observer on the registry's pointer-move or pointer-up
\* stream: the refs a broadcast reaches.
Receivers ==
    {r \in Refs : OpenCount(registry.pointerMove, r) + OpenCount(registry.pointerUp, r) > 0}

\* C4: while ref a is the registry's active drag, a pointer-down on another
\* ref b is rejected and leaves a in the active slot; at every moment at most
\* one ref receives the broadcast pointer-move / pointer-up events.
C4_SingleActiveDrag ==
    /\ [][\A a \in Refs : \A b \in Refs \ {a} :
            (PointerDownOn(b) /\ registryIsDragging(registry, a)) =>
                /\ registryIsDragging(registry', a)
                /\ ref'[b] = ref[b]]_vars
    /\ [](Cardinality(Receivers) <= 1)

\* Number of calls of hook on container c in the sequence cs.
CountCalls(cs, hook, c) ==
    Cardinality({i \in 1..Len(cs) : cs[i][1] = hook /\ cs[i][2] = c})

\* No container receives, in cs[i..] on top of the record h, the hook it
\* received last.
RECURSIVE Alternating(_, _, _)
Alternating(h, cs, i) ==
    IF i > Len(cs) THEN TRUE
    ELSE LET c == cs[i] IN
         IF c[1] \in {"enter", "exit"}
         THEN /\ h[c[3]][c[2]] # c[1]
              /\ Alternating([h EXCEPT ![c[3]][c[2]] = c[1]], cs, i + 1)
         ELSE Alternating(h, cs, i + 1)

Finalized(r) == dom.display[r] = "none" /\ dom'.display[r] = ""
\* The pointer-up position the continuation that runs in this step holds.
UpPosition(r) == IF lastEvent'.type = "pointerup" THEN lastEvent'.pos ELSE upEvent[r]

\* C6: when a drag is finalized while the current drop container is c, the
\* only hook called is c.drop, with the dragged item, the index
\* c.getItemIndex reports for the item at finalization, the container the
\* item was in at pointer-down as originContainer, and c._isOverContainer at
\* the pointer-up position.
C6_DropArguments ==
    [][\A r \in Refs, c \in Containers :
        (Finalized(r) /\ ref[r].dropContainer = c) =>
            calls' = << <<"drop", c, r, getItemIndex([drops |-> drops'], c, r), Home(r),
                          isOverContainer(c, UpPosition(r).x, UpPosition(r).y)>> >>]_vars

\* The scenario: dragged out of A, dropped over B at index 1.
C6_Witness ==
    /\ lastEvent.type \in {"pointerup", "transitionend", "timeout"}
    /\ calls = << <<"drop", "B", "r1", 1, "A", TRUE>> >>
    /\ dom.display["r1"] = ""

\* The preview rect placed at the constrained position of the probe.
PlacedLeft == probe.result.x - probe.pickupPositionInElement.x
PlacedTop == probe.result.y - probe.pickupPositionInElement.y
InsideX ==
    /\ probe.boundaryRect.left <= PlacedLeft
    /\ PlacedLeft + probe.previewRect.width <= probe.boundaryRect.right
InsideY ==
    /\ probe.boundaryRect.top <= PlacedTop
    /\ PlacedTop + probe.previewRect.height <= probe.boundaryRect.bottom
Clamped == probe # NoProbe /\ probe.result # NoPoint /\ probe.boundaryRect # NoRect

\* C7 as stated: with a boundary rect set, for every pointer position and
\* every pickup offset, the preview rect placed at the constrained position
\* lies within the boundary rect on all four sides.
C7_PreviewInsideBoundary == Clamped => (InsideX /\ InsideY)

\* C7 as amended: with a boundary rect set, the placed preview rect lies
\* within the boundary horizontally when the preview is not wider than the
\* boundary, and vertically when it is not taller than the boundary.
C7_PreviewInsideWhenItFits ==
    Clamped =>
        /\ probe.previewRect.width <= probe.boundaryRect.width => InsideX
        /\ probe.previewRect.height <= probe.boundaryRect.height => InsideY

\* A pointer right of and below the boundary, pulled back for a preview that fits.
C7_Witness ==
    /\ Clamped
    /\ probe.previewRect.width <= probe.boundaryRect.width
    /\ probe.previewRect.height <= probe.boundaryRect.height
    /\ probe.point.x > probe.boundaryRect.right /\ probe.point.y > probe.boundaryRect.bottom
    /\ probe.pickupPositionInElement.x > 0
    /\ probe.result.x < probe.point.x /\ probe.result.y < probe.point.y

\* C8: on a pointer-move, pointerDirectionDelta changes on an axis only if the
\* pointer is at least pointerDirectionChangeThreshold away, on that axis,
\* from the position recorded at the last change; a closer move leaves it.
C8_DirectionDelta ==
    [][\A r \in Refs :
        (lastEvent'.type = "pointermove" /\ ref[r].pointerDirectionDelta # NoPoint) =>
            LET last == ref[r].pointerPositionAtLastDirectionChange
                p == lastEvent'.pos
                d == ref[r].pointerDirectionDelta
                e == ref'[r].pointerDirectionDelta
            IN /\ e.x # d.x => Abs(p.x - last.x) >= pointerDirectionChangeThreshold
               /\ e.y # d.y => Abs(p.y - last.y) >= pointerDirectionChangeThreshold
               /\ Abs(p.x - last.x) < pointerDirectionChangeThreshold =>
                    ref'[r].pointerPositionAtLastDirectionChange.x = last.x
               /\ Abs(p.y - last.y) < pointerDirectionChangeThreshold =>
                    ref'[r].pointerPositionAtLastDirectionChange.y = last.y]_vars

\* A Dragging move to the right that set the horizontal direction.
C8_Witness ==
    /\ Moved
    /\ isDragging(Cur, "r1") /\ ref["r1"].hasMoved
    /\ ref["r1"].pointerDirectionDelta.x = 1
    /\ ref["r1"].pointerPositionAtLastDirectionChange.x = lastEvent.pos.x
    /\ ref["r1"].pointerPositionAtLastDirectionChange.x > ref["r1"].pickupPositionOnPage.x

Disposing(r) == lastEvent'.type = "dispose" /\ lastEvent'.ref = r

\* C9: dispose() called while isDragging() is true leaves, in the same step,
\* the root element out of the DOM, preview and placeholder destroyed, no
\* open pointer-move or pointer-up subscription of the ref, no pointer-down
\* listener on the root, and the registry neither listing the ref nor
\* holding it as the active drag.
C9_DisposeWhileDragging ==
    [][\A r \in Refs :
        (Disposing(r) /\ isDragging(Cur, r)) =>
            /\ ParentNode(dom', Root(r)) = Null
            /\ ref'[r].preview = Null /\ ParentNode(dom', Preview(r)) = Null
            /\ ref'[r].placeholder = Null /\ ParentNode(dom', Placeholder(r)) = Null
            /\ OpenCount(registry'.pointerMove, r) = 0
            /\ OpenCount(registry'.pointerUp, r) = 0
            /\ dom'.listeners[r] = {}
            /\ r \notin registry'.dragItems
            /\ ~registryIsDragging(registry', r)]_vars

\* C10: once the ref is disposed while its settle wait is pending, the
\* completion of the wait (transitionend or fallback timer) raises no error,
\* touches no DOM node and calls no container hook.
C10_SettleAfterDisposeIsNoOp ==
    [][\A r \in Refs :
        (/\ ref[r].rootElement = Null /\ pending[r] = "waiting"
         /\ lastEvent'.type \in {"transitionend", "timeout"} /\ lastEvent'.ref = r) =>
            /\ uncaught' = {}
            /\ dom' = dom
            /\ calls' = <<>>]_vars

\* C11: reset() leaves activeTransform and passiveTransform at {0, 0}, whatever
\* drags preceded it, and they stay there until a further drag moves the
\* item: only a pointer-move (or reset itself) changes either of them.
C11_ResetClearsTransforms ==
    [][\A r \in Refs :
        /\ (lastEvent'.type = "reset" /\ lastEvent'.ref = r /\ budget' # budget) =>
                /\ ref'[r].activeTransform = Zero
                /\ ref'[r].passiveTransform = Zero
        /\ (\/ ref'[r].activeTransform # ref[r].activeTransform
            \/ ref'[r].passiveTransform # ref[r].passiveTransform) =>
                lastEvent'.type \in {"pointermove", "reset"}]_vars

\* reset() after a drag that was released outside every container.
C11_Witness ==
    /\ lastEvent.type = "reset"
    /\ ref["r1"].hasMoved /\ ~InSequence(Cur, "r1")
    /\ ref["r1"].dropContainer = None
    /\ ref["r1"].activeTransform = Zero /\ ref["r1"].passiveTransform = Zero

\* C12: in every reachable state of a DragRef, hasMoved implies
\* hasStartedDragging.
C12_MovedImpliesStarted ==
    \A r \in Refs : ref[r].hasMoved => ref[r].hasStartedDragging

\* A sequence that moved after crossing the threshold and was then released.
C12_Witness ==
    /\ ref["r1"].hasMoved /\ ref["r1"].hasStartedDragging
    /\ lastEvent.type = "pointerup"

\* The root of r is hidden and the pointer has been released: the sequence
\* of r waits for its finalization.
Settling(r) ==
    /\ ref[r].rootElement # Null
    /\ dom.display[r] = "none"
    /\ ~registryIsDragging(registry, r)

\* r is at rest with its root restored and no preview or placeholder.
Idle(r) ==
    /\ ~registryIsDragging(registry, r)
    /\ pending[r] = "none"
    /\ dom.display[r] = ""
    /\ InDocument(dom, Root(r))
    /\ ref[r].preview = Null /\ ref[r].placeholder = Null
    /\ ~InDocument(dom, Preview(r)) /\ ~InDocument(dom, Placeholder(r))

ObserversOf(subject, r) == SelectSeq(subject, LAMBDA o : o.ref = r /\ ~o.closed)

\* The parents of the nodes of r.
PlacesOf(d, r) == <<ParentNode(d, Root(r)), ParentNode(d, Preview(r)), ParentNode(d, Placeholder(r))>>

\* C14: a pointer-up delivered to a ref that the registry does not consider
\* dragging changes no field of the ref, none of its subscriptions, none of
\* its DOM nodes and nothing the registry holds about it, and calls no
\* container hook for it.
C14_PointerUpWhenNotDragging ==
    [][(lastEvent'.type = "pointerup" /\ budget' # budget) =>
        \A r \in Refs :
            (~registryIsDragging(registry, r) /\ OpenCount(registry.pointerUp, r) > 0) =>
                /\ ref'[r] = ref[r]
                /\ ObserversOf(registry'.pointerUp, r) = ObserversOf(registry.pointerUp, r)
                /\ ObserversOf(registry'.pointerMove, r) = ObserversOf(registry.pointerMove, r)
                /\ (r \in registry'.dragItems) = (r \in registry.dragItems)
                /\ ~registryIsDragging(registry', r)
                /\ dom'.display[r] = dom.display[r]
                /\ dom'.listeners[r] = dom.listeners[r]
                /\ PlacesOf(dom', r) = PlacesOf(dom, r)
                /\ pending'[r] = pending[r] /\ upEvent'[r] = upEvent[r]
                /\ \A i \in 1..Len(calls') : Len(calls'[i]) >= 3 => calls'[i][3] # r]_vars

\* r1 was armed, r2 took the registry's slot, and the pointer-up reached
\* both: r1 still holds its subscriptions.
C14_Witness ==
    /\ lastEvent.type = "pointerup"
    /\ OpenCount(registry.pointerUp, "r1") > 0
    /\ ref["r1"].upSubLive /\ ref["r1"].moveSubLive
    /\ registry.active = None

\* C15: a pointer-up in the Armed state is a click: the ref is at rest again
\* with its registry streams unsubscribed and the active slot cleared, no
\* preview or placeholder exists, the root has not moved, and no enter, exit,
\* sort or drop hook is called.
C15_ArmedPointerUpIsClick ==
    [][\A r \in Refs :
        (Armed(r) /\ lastEvent'.type = "pointerup" /\ budget' # budget) =>
            /\ registry'.active = None /\ pending'[r] = "none"
            /\ OpenCount(registry'.pointerMove, r) = 0
            /\ OpenCount(registry'.pointerUp, r) = 0
            /\ ref'[r].preview = Null /\ ref'[r].placeholder = Null
            /\ PlacesOf(dom', r) = PlacesOf(dom, r)
            /\ dom'.display[r] = dom.display[r]
            /\ calls' = <<>>]_vars

\* C16: a pointer-down on a disabled ref, or a mouse-down with a button
\* other than the primary one, is ignored: startDragging is not called, no
\* registry stream is subscribed, and every field of the ref (among them
\* hasStartedDragging, hasMoved, the pickup positions and initialContainer)
\* keeps its value, so that a ref at rest stays at rest.
C16_IgnoredPointerDown ==
    [][\A r \in Refs :
        (/\ PointerDownOn(r) /\ budget' # budget
         /\ \/ ref[r].disabled
            \/ ~lastEvent'.touch /\ lastEvent'.button # 0) =>
            /\ ref'[r] = ref[r]
            /\ registry' = registry
            /\ calls' = <<>> /\ uncaught' = {}]_vars

\* A mouse-down with the secondary button on an enabled ref at rest, after an
\* earlier sequence of the ref.
C16_Witness ==
    /\ lastEvent.type = "pointerdown" /\ ~lastEvent.touch /\ lastEvent.button = 2
    /\ ~ref["r1"].disabled
    /\ ref["r1"].hasStartedDragging
    /\ registry.active = None /\ registry.pointerMove = <<>>

\* A mouse-down with the primary button on the enabled ref r at rest, right
\* after a touch event.
MouseDownAfterTouch(r) ==
    /\ PointerDownOn(r) /\ budget' # budget
    /\ ~lastEvent'.touch /\ lastEvent'.button = 0
    /\ lastEvent.touch
    /\ ~ref[r].disabled /\ ~registryIsDragging(registry, r)

\* C17: a mouse-down less than 800 ms after a touch event the ref handled
\* (a touchstart included, whether or not the touch became a drag) is
\* rejected and the ref stays at rest; 800 ms or more after the last touch
\* event it is accepted.
C17_SyntheticMouseDownRejected ==
    [][\A r \in Refs :
        MouseDownAfterTouch(r) =>
            IF lastEvent'.at - lastEvent.at < MOUSE_EVENT_IGNORE_TIME
            THEN ref'[r] = ref[r] /\ registry' = registry
            ELSE registryIsDragging(registry', r)]_vars

\* C18: when a drag that crossed the threshold is released with no current
\* drop container, finalization raises no error, calls no drop hook,
\* restores the root element and destroys preview and placeholder.
C18_FinalizeWithoutContainer ==
    [][\A r \in Refs :
        (Finalized(r) /\ ref[r].dropContainer = None) =>
            /\ uncaught' = {}
            /\ CountCalls(calls', "drop", "A") = 0 /\ CountCalls(calls', "drop", "B") = 0
            /\ dom'.display[r] = "" /\ ParentNode(dom', Root(r)) = El(Home(r))
            /\ ref'[r].preview = Null /\ ref'[r].placeholder = Null
            /\ ~InDocument(dom', Preview(r)) /\ ~InDocument(dom', Placeholder(r))
            /\ pending'[r] = "none" /\ ~registryIsDragging(registry', r)]_vars

\* A drag that moved, was released off every container and is finalized.
C18_Witness ==
    /\ lastEvent.type \in {"pointerup", "timeout", "transitionend"}
    /\ ref["r1"].hasMoved /\ ref["r1"].dropContainer = None
    /\ pending["r1"] = "none" /\ dom.display["r1"] = ""
    /\ registry.active = None
    /\ ref["r1"].rootElement # Null

\* C19: after the finalization of a sequence that crossed the threshold the
\* current drop container of the ref is its initial container, whether the
\* pointer ended over a container, over another one or over none.
C19_ContainerResetAfterFinalization ==
    [][\A r \in Refs :
        (Finalized(r) /\ uncaught' = {}) =>
            ref'[r].dropContainer = ref'[r].initialContainer]_vars

\* The page as it was built, and the node that followed n on it.
InitialDom == [children |-> InitialChildren]

\* C20: after the finalization of a sequence that crossed the threshold the
\* root element is visible and back at its place (in its original parent,
\* before the sibling that followed it, or last in the initial container when
\* none did), neither preview nor placeholder remains, and the cached
\* boundary and preview rects are cleared.
C20_RootRestoredAfterFinalization ==
    [][\A r \in Refs :
        Finalized(r) =>
            /\ dom'.display[r] = ""
            /\ ParentNode(dom', Root(r)) = El(Home(r))
            /\ NextSibling(dom', Root(r)) = NextSibling(InitialDom, Root(r))
            /\ NextSibling(dom', Root(r)) = ref[r].nextSibling
            /\ ref'[r].preview = Null /\ ref'[r].placeholder = Null
            /\ ParentNode(dom', Preview(r)) = Null
            /\ ParentNode(dom', Placeholder(r)) = Null
            /\ ref'[r].boundaryRect = NoRect /\ ref'[r].previewRect = NoRect]_vars

\* r2, the last child of its container and held inside a boundary, was
\* dragged, moved and released, and is finalized.
C20_Witness ==
    /\ lastEvent.type = "pointerup"
    /\ ref["r2"].hasMoved /\ ref["r2"].boundaryElement = PageRect
    /\ ref["r2"].nextSibling = Null
    /\ dom.display["r2"] = "" /\ pending["r2"] = "none"
    /\ ~registryIsDragging(registry, "r2")
    /\ ref["r2"].previewRect = NoRect

\* C21: after any sequence of withRootElement calls exactly one element
\* carries the pointer-down listeners of the ref, the element passed last:
\* the call takes the listeners off the previous root and binds them to the
\* new one, and a call with the current root changes nothing.
C21_OneListeningRoot ==
    /\ [](\A r \in Refs : dom.listeners[r] = {ref[r].rootElement})
    /\ [][lastEvent'.type = "withRootElement" =>
            LET r == lastEvent'.ref IN
            /\ ref'[r].rootElement = lastEvent'.target
            /\ dom'.listeners[r] = {lastEvent'.target}
            /\ lastEvent'.target = ref[r].rootElement =>
                   UNCHANGED <<ref, registry, dom, drops, pending, upEvent>>]_vars

C21_Witness ==
    /\ lastEvent.type = "withRootElement"
    /\ lastEvent.target = Alt("r1")
    /\ ref["r1"].rootElement = Alt("r1")
    /\ dom.listeners["r1"] = {Alt("r1")}
    /\ budget < MaxEventsSetup - 1

\* The handles of hs that hold the element t.
HandlesHolding(hs, t) ==
    {i \in DOMAIN hs : t = hs[i].element \/ (t[1] = "within" /\ hs[i].element = Handle(t[2]))}

\* C22: with at least one handle registered, a pointer-down arms a drag
\* sequence only when its target is, or lies inside, a handle that is not
\* disabled and the ref is not disabled; a pointer-down on the root outside
\* every handle, or inside a disabled handle, leaves the ref as it was.
C22_HandlesGatePointerDown ==
    [][(lastEvent'.type = "pointerdown" /\ Len(ref[lastEvent'.ref].handles) > 0) =>
        LET r == lastEvent'.ref
            hs == ref[r].handles
            holding == HandlesHolding(hs, lastEvent'.target)
        IN
        /\ (registry' # registry \/ ref' # ref) =>
               /\ \E i \in holding : ~hs[i].disabled
               /\ ~ref[r].disabled
        /\ (holding = {} \/ \A i \in holding : hs[i].disabled) =>
               UNCHANGED <<ref, registry, dom, pending, upEvent>>]_vars

C22_Witness ==
    /\ lastEvent.type = "pointerdown"
    /\ lastEvent.target = Within("h2")
    /\ Len(ref["r1"].handles) = 2
    /\ ref["r1"].handles[1].disabled
    /\ registry.active = "r1"
    /\ Len(registry.pointerMove) = 1

\* C23: after any sequence of withHandles calls, disabled changes and
\* withRootElement calls the native drag interactions of the current root are
\* suppressed exactly when at least one handle is registered or the ref is
\* disabled.
\* (Stated for the refs no pointer-down has armed yet: those have seen
\* nothing but the three configuration calls.)
C23_NativeInteractionsSuppressed ==
    \A r \in Refs :
        (ref[r].rootElement # Null /\ ref[r].pickupPositionOnPage = NoPoint) =>
            (~dom.native[ref[r].rootElement] <=> (Len(ref[r].handles) > 0 \/ ref[r].disabled))

\* C24: once withBoundaryElement(null) is in effect, every pointer-move the
\* ref processes while dragging puts the preview at the axis-locked pointer
\* position, unclamped, and raises no error, whatever boundary was set before.
C24_NoBoundaryNoClamp ==
    [][\A r \in Refs :
        (/\ lastEvent'.type = "pointermove"
         /\ isDragging(Cur, r)
         /\ ref[r].moveSubLive
         /\ ref[r].boundaryElement = NoRect) =>
            LET lock == IF ref[r].dropContainer # None
                        THEN drops[ref[r].dropContainer].lockAxis ELSE None
                locked == LockAxes(lastEvent'.pos, ref[r].lockAxis, lock,
                                   ref[r].pickupPositionOnPage)
            IN /\ uncaught' = {}
               /\ ref'[r].previewTransform =
                      getTransform(locked.x - ref[r].pickupPositionInElement.x,
                                   locked.y - ref[r].pickupPositionInElement.y)]_vars

\* The elements of the sequence q.
Range(q) == {q[i] : i \in DOMAIN q}

\* C25: init() throws when a tool of the list has a position other than
\* left-top, left-bottom, right-top and right-bottom; with valid positions
\* only it does not throw and every tool is in exactly one of the lists
\* left and right.
C25_InitPlacesOrThrows ==
    [][tools' # tools =>
        LET list == tools'.toolsList IN
        IF \E i \in DOMAIN list : list[i].position \notin ToolsPositions
        THEN tools'.threw
        ELSE /\ ~tools'.threw
             /\ \A i \in DOMAIN list :
                    (i \in Range(tools'.left)) # (i \in Range(tools'.right))]_vars

C25_Witness ==
    /\ tools.threw
    /\ Len(tools.toolsList) = 7
    /\ tools.toolsList[1].position = "right-bottom"
    /\ tools.toolsList[2].position = "center"
    /\ tools.right = <<1>>

\* C26: axis locking.  When the ref or the current container locks 'x' the
\* constrained position keeps the pickup y; when either locks 'y' it keeps
\* the pickup x; the container's lock applies in addition to the ref's, so
\* a ref locked to 'x' in a container locked to 'y' keeps both.  (Stated
\* without a boundary, where nothing but the locks acts on the position.)
C26_AxisLocking ==
    (probe # NoProbe /\ probe.result # NoPoint /\ probe.boundaryRect = NoRect) =>
        /\ (probe.lockAxis = "x" \/ probe.dropLock = "x") =>
               probe.result.y = probe.pickupPositionOnPage.y
        /\ (probe.lockAxis = "y" \/ probe.dropLock = "y") =>
               probe.result.x = probe.pickupPositionOnPage.x

\* The elements from e up to the document root, e first.
RECURSIVE UpPath(_)
UpPath(e) == IF e = Null THEN <<>> ELSE <<e>> \o UpPath(ParentElement(e))

\* The container of the nearest accepting drop list on the path up from the
\* element e, None when the path has none.
NearestAccepting(e) ==
    LET path == UpPath(e)
        hits == {i \in DOMAIN path : path[i][1] = "drop-list" /\ drops[path[i][2]].accepts}
    IN IF hits = {} THEN None
       ELSE path[CHOOSE i \in hits : \A j \in hits : i <= j][2]

\* r processes the pointer-move of this step as a move of a started drag.
DraggingMove(r) ==
    /\ lastEvent'.type = "pointermove"
    /\ isDragging(Cur, r)
    /\ OpenCount(registry.pointerMove, r) > 0

\* An observer of r processes the pointer-move of this step with the drag
\* started: started before the move, or by an earlier observer of r that the
\* same move reached first.
MoveWhileDragging(r) ==
    /\ lastEvent'.type = "pointermove"
    /\ OpenCount(registry.pointerMove, r) > 0
    /\ ref'[r].hasStartedDragging
    /\ registryIsDragging(registry, r)

\* The constrained position of the pointer-move of this step for r.
ConstrainedPosition(r) ==
    getConstrainedPointerPosition(lastEvent'.pos, ref[r],
        IF ref[r].dropContainer # None THEN drops[ref[r].dropContainer].lockAxis ELSE None)

\* activeTransform after a container-less move of r in this step.
FreeTransform(r) ==
    Pt(ConstrainedPosition(r).x - ref[r].pickupPositionOnPage.x + ref[r].passiveTransform.x,
       ConstrainedPosition(r).y - ref[r].pickupPositionOnPage.y + ref[r].passiveTransform.y)

\* C27: between the pointer events of a ref, activeTransform is written only
\* by a Dragging pointer-move that finds no accepted container, which sets it
\* to constrained position - pickupPositionOnPage + passiveTransform; a move
\* that resolves to an accepted container leaves it unchanged.
C27_ActiveTransformOnlyByFreeMove ==
    [][\A r \in Refs :
        /\ ref'[r].activeTransform # ref[r].activeTransform =>
               /\ MoveWhileDragging(r)
               /\ NearestAccepting(TargetAt(lastEvent'.pos)) = None
               /\ ref'[r].activeTransform = FreeTransform(r)
        /\ DraggingMove(r) =>
               ref'[r].activeTransform =
                   IF NearestAccepting(TargetAt(lastEvent'.pos)) = None
                   THEN FreeTransform(r) ELSE ref[r].activeTransform]_vars

\* The hook calls of one run of _pointerMove for r that resolves to the
\* container c while the current container is ref[r].dropContainer.
HooksInto(r, c) ==
    LET prev == ref[r].dropContainer
        p == ConstrainedPosition(r)
        d == ref'[r].pointerDirectionDelta
    IN (IF prev # c
        THEN (IF prev # None THEN <<<<"exit", prev, r>>>> ELSE <<>>)
             \o <<<<"enter", c, r, p.x, p.y>>>>
        ELSE <<>>)
       \o <<<<"sort", c, r, p.x, p.y, d.x, d.y>>>>

\* C28: on a Dragging pointer-move that resolves to an accepted container c
\* the hooks are called in the order exit(previous container), enter(c),
\* c._sortItem; exit and enter only when c differs from the previous current
\* container, _sortItem on every such move, with the constrained position
\* and the current pointerDirectionDelta.
C28_HookOrderIntoContainer ==
    [][\A r \in Refs, c \in Containers :
        (DraggingMove(r) /\ NearestAccepting(TargetAt(lastEvent'.pos)) = c) =>
            LET expected == HooksInto(r, c) IN
            /\ Len(calls') >= Len(expected)
            /\ SubSeq(calls', 1, Len(expected)) = expected
            /\ \A i \in (Len(expected) + 1)..Len(calls') : calls'[i] = expected[Len(expected)]]_vars

\* C29: on a Dragging pointer-move that finds no accepted container the
\* current container, if there is one, gets exactly one exit call and no
\* other hook is called, and the ref has no current container afterwards; a
\* container-less move of a ref without a current container calls no hook.
C29_ExitOnceWithoutContainer ==
    [][\A r \in Refs :
        (DraggingMove(r) /\ NearestAccepting(TargetAt(lastEvent'.pos)) = None) =>
            /\ calls' = IF ref[r].dropContainer # None
                        THEN <<<<"exit", ref[r].dropContainer, r>>>> ELSE <<>>
            /\ ref'[r].dropContainer = None]_vars

\* A second container-less move in a row, after the move that left
\* container A.
C29_Witness ==
    /\ lastEvent.type = "pointermove"
    /\ lastEvent.pos = Pt(2, 1)
    /\ Len(registry.pointerMove) = 1
    /\ isDragging(Cur, "r1") /\ ref["r1"].hasMoved
    /\ hooks["r1"]["A"] = "exit"
    /\ ref["r1"].dropContainer = None
    /\ calls = <<>>

\* C30: the container the DOM walk picks is the nearest element on the path
\* from the event target (inclusive) up to the document root that is a drop
\* list and whose enterPredicate accepts the item; rejecting drop lists are
\* passed over, and the walk finds nothing only when the path holds no
\* accepting drop list.  A Dragging move makes that container the current one.
C30_NearestAcceptingDropList ==
    [][\A r \in Refs :
        DraggingMove(r) =>
            /\ \A p \in Points :
                   findElementUp(Cur, r, TargetAt(p)) = NearestAccepting(TargetAt(p))
            /\ ref'[r].dropContainer = NearestAccepting(TargetAt(lastEvent'.pos))]_vars

\* The move was over the rejecting container B inside the accepting
\* container A and made A the current container.
C30_Witness ==
    /\ lastEvent.type = "pointermove"
    /\ TargetAt(lastEvent.pos) = El("B")
    /\ ~drops["B"].accepts /\ drops["A"].accepts
    /\ ref["r1"].hasMoved
    /\ ref["r1"].dropContainer = "A"
    /\ Len(registry.pointerMove) = 1

\* C31: every enterPredicate call made while dragging is given the dragged
\* item as candidateItem and the container the item is dragged from as
\* sourceContainer.
C31_EnterPredicateArguments ==
    [][\A r \in Refs :
        DraggingMove(r) =>
            LET cs == enterPredicateCalls(Cur, r, TargetAt(lastEvent'.pos)) IN
            \A i \in DOMAIN cs :
                /\ cs[i][2] = r
                /\ cs[i][3] = ref[r].initialContainer]_vars

\* r is between its threshold-crossing pointer-move and its finalization.
InDrag(r) == isDragging(Cur, r) \/ pending[r] = "waiting"

Finalizes(r) ==
    /\ ref[r].preview # Null
    /\ ref'[r].preview = Null
    /\ ref'[r].rootElement # Null

\* C33: when a drag that ended with no drop container is finalized,
\* passiveTransform holds the resting offset, the value activeTransform had at
\* the pointer-up, so that the next drag without a container accumulates on it.
C33_PassiveTransformKeepsRestingOffset ==
    [][\A r \in Refs :
        (Finalizes(r) /\ ref[r].dropContainer = None) =>
            ref'[r].passiveTransform = ref[r].activeTransform]_vars

\* C34: dispose() of a ref whose root element was moved to the body (while
\* dragging, and while settling between the pointer-up and the cleanup)
\* removes the root element from the document: no hidden root is left behind.
C34_DisposeRemovesMovedRoot ==
    [][\A r \in Refs :
        (/\ lastEvent'.type = "dispose" /\ lastEvent'.ref = r
         /\ ParentNode(dom, Root(r)) = Body) =>
            ParentNode(dom', Root(r)) = Null]_vars

\* What an observer of beforeStarted sees when r emits in the current state.
EmissionOf(r) == [ref |-> r, seen |-> ref[r], active |-> registry.active]

\* C35: every pointer-down delivered to the root element of r emits
\* beforeStarted exactly once, before any state of the drag sequence is
\* computed or changed, also when the pointer-down is then ignored; after
\* dispose() beforeStarted has completed and emits nothing more.
C35_BeforeStartedOncePerPointerDown ==
    [][\A r \in Refs :
        /\ (PointerDownOn(r) /\ budget' # budget /\ ~ref[r].beforeStartedStopped) =>
               lastEvent'.started = <<EmissionOf(r)>>
        /\ (lastEvent'.type = "dispose" /\ lastEvent'.ref = r /\ budget' # budget) =>
               ref'[r].beforeStartedStopped
        /\ ref[r].beforeStartedStopped =>
               /\ ref'[r].beforeStartedStopped
               /\ \A i \in DOMAIN lastEvent'.started : lastEvent'.started[i].ref # r]_vars

\* A pointer-down that was ignored (disabled ref) has emitted all the same.
C35_Witness ==
    /\ lastEvent.type = "pointerdown" /\ lastEvent.ref = "r1"
    /\ ref["r1"].disabled
    /\ Len(lastEvent.started) = 1
    /\ registry.active = None

\* A pointer-down delivered after dispose() and withRootElement().
C35_WitnessDisposed ==
    /\ lastEvent.type = "pointerdown" /\ lastEvent.ref = "r1"
    /\ ref["r1"].beforeStartedStopped
    /\ lastEvent.started = <<>>

\* C36: at the pointer-up of a drag that crossed the threshold the settle
\* wait is skipped when the element never moved or the computed transition
\* duration is zero: nothing is left pending and the drag is finalized by the
\* pointer-up itself.  Otherwise the wait is pending after the pointer-up, and
\* the drag is finalized only by a transitionend whose target is the preview
\* and whose property is transform, or by the fallback timer.
C36_SettleWait ==
    [][\A r \in Refs :
        /\ (lastEvent'.type = "pointerup" /\ isDragging(Cur, r)) =>
               IF ~ref[r].hasMoved \/ lastEvent'.duration = 0
               THEN pending'[r] = "none" /\ Finalizes(r)
               ELSE pending'[r] = "waiting" /\ ~Finalizes(r)
        /\ (pending[r] = "waiting" /\ (Finalizes(r) \/ pending'[r] = "none")) =>
               \/ /\ lastEvent'.type = "transitionend" /\ lastEvent'.ref = r
                  /\ lastEvent'.target = ref[r].preview
                  /\ lastEvent'.propertyName = "transform"
               \/ lastEvent'.type = "timeout" /\ lastEvent'.ref = r]_vars

C36_Witness ==
    /\ lastEvent.type = "transitionend" /\ lastEvent.ref = "r1"
    /\ lastEvent.target = Preview("r1") /\ lastEvent.propertyName = "transform"
    /\ pending["r1"] = "none"
    /\ ref["r1"].preview = Null /\ ref["r1"].rootElement # Null
    /\ dom.display["r1"] = ""

\* The calls of a drop hook for r in the sequence cs.
DropCalls(cs, r) == {i \in 1..Len(cs) : cs[i][1] = "drop" /\ cs[i][3] = r}

\* C37: finalization runs once per drag sequence that crossed the threshold
\* and was released: an event calls the drop hook for r at most once, and only
\* in the step that finalizes the sequence, in which the preview and the
\* placeholder created for it are destroyed and the root element is shown
\* again in the document; a transitionend and the fallback timer both
\* occurring, or a pointer-up delivered more than once, call it no second
\* time.  The pointer-up that releases a sequence past the threshold finalizes
\* it or leaves the settle wait pending.
C37_DropOncePerSequence ==
    [][\A r \in Refs :
        LET n == Cardinality(DropCalls(calls', r)) IN
        budget' # budget =>
            /\ n <= 1
            /\ n = 1 =>
                /\ Finalized(r) /\ Finalizes(r)
                /\ ref[r].placeholder # Null /\ ref'[r].placeholder = Null
                /\ ~InDocument(dom', Preview(r)) /\ ~InDocument(dom', Placeholder(r))
                /\ InDocument(dom', Root(r))
                /\ pending'[r] = "none"
            /\ (/\ lastEvent'.type = "pointerup"
                /\ ref[r].preview # Null /\ pending[r] = "none"
                /\ OpenCount(registry.pointerUp, r) > 0) =>
                   Finalizes(r) \/ pending'[r] = "waiting"]_vars

\* r has no drag sequence in progress: it holds no registry slot and waits
\* for no settle.
AtRest(r) == ~registryIsDragging(registry, r) /\ pending[r] = "none"

\* C38: a ref holds at most one open subscription to the pointer-move stream
\* and at most one to the pointer-up stream, and none while it is at rest
\* (before any pointer-down, after a pointer-up, after dispose()); a ref that
\* is at rest is not reached by a pointer-move.
C38_AtMostOneSubscription ==
    \A r \in Refs :
        /\ OpenCount(registry.pointerMove, r) <= 1
        /\ OpenCount(registry.pointerUp, r) <= 1
        /\ AtRest(r) =>
               OpenCount(registry.pointerMove, r) + OpenCount(registry.pointerUp, r) = 0

\* The step ends the settle wait of r: its continuation runs.
SettleEnds(r) == pending[r] = "waiting" /\ pending'[r] = "none"

SelectedAt(t, position) ==
    {i \in DOMAIN t.toolsList : t.toolsList[i].position = position /\ t.toolsList[i].select}

\* C40: after init() and any sequence of showTools calls at most one tool of
\* each position is selected; a showTools call toggles the select flag of
\* its tool, clears the flag of every other tool of the same position and
\* leaves the tools of the other positions, and every other field, as they were.
C40_OneSelectedPerPosition ==
    /\ [](tools.toolsMap # {} =>
            \A i \in DOMAIN tools.toolsList :
                Cardinality(SelectedAt(tools, tools.toolsList[i].position)) <= 1)
    /\ [][(tools' # tools /\ budget' = budget) =>
            \E i \in DOMAIN tools.toolsList :
                LET old == tools.toolsList
                    new == tools'.toolsList
                IN /\ tools' = [tools EXCEPT !.toolsList = new]
                   /\ DOMAIN new = DOMAIN old
                   /\ new[i] = [old[i] EXCEPT !.select = ~@]
                   /\ \A j \in DOMAIN old \ {i} :
                          IF old[j].position = old[i].position
                          THEN new[j] = [old[j] EXCEPT !.select = FALSE]
                          ELSE new[j] = old[j]]_vars

\* The page tool shown in place of the data source tool, the icon tool
\* shown beside them.
C40_Witness ==
    /\ Len(tools.toolsList) = 5
    /\ ~tools.toolsList[1].select
    /\ tools.toolsList[2].select
    /\ tools.toolsList[4].select
    /\ ~tools.toolsList[5].select

TypeOK ==
    /\ registry.active \in Refs \cup {None}
    /\ \A r \in Refs : pending[r] \in {"none", "waiting"}
====
